---- MODULE Spec2Model ----
(***************************************************************************)
(* State-machine model of the mutual-fund scraper (src/webscraping.py).    *)
(* Text is modelled as a sequence of one-character strings so that the     *)
(* string operations of the source (split, replace, strip, join) are       *)
(* computed, not assumed.                                                  *)
(***************************************************************************)
EXTENDS Integers, Sequences, FiniteSets, TLC

VARIABLES
    listing,        \* the site: the listing pages it serves, by page index
    clamps,         \* the site: TRUE when an index past the end serves the last page again
    pc,             \* position of main()
    page_no,        \* main: page_no
    funds_data,     \* main: funds_data of the current iteration
    card_i,         \* main: position of `for fund in funds_data` (1-based)
    all_funds,      \* main: all_funds
    seen,           \* main: seen
    fetched,        \* history: the page indices extract_fund_overview was called with
    pending_delay,  \* history: TRUE from a listing fetch until the next time.sleep(DELAY_SECONDS)
    fn_call,        \* a single call of one function: its name, arguments and what the network answers
    fn_ret,         \* what that call returned or raised, and the requests and sleeps it made
    fund_i,         \* main: position of `for fund in all_funds` (1-based)
    fund_scheme_code, \* main: scheme_code of the current fund
    lists,          \* main: the per-fund lists, by their names in the source
    stat_columns,   \* main: the columns pe .. yield_to_maturity of analysis built so far
    exported,       \* main: "saved" or "failed" once the export was tried, "" before
    uncaught,       \* the exception that ended main, "" when none did
    stats_answers,  \* the site: what the stats API answers for each fund in this run
    trace,          \* history: the calls main made, with their requests and sleeps
    pp_pc,          \* position of preprocess_data()
    loaded,         \* history: the table load_excel returned
    df,             \* preprocess_data: df, the fund table (one record per row)
    nav_df,         \* preprocess_data: nav_df
    holdings_df,    \* preprocess_data: holdings_df
    sector_df,      \* preprocess_data: sector_df
    warnings,       \* history: the warnings validate_data logged and the error save_cleaned_data logged
    pp_raised       \* the exception that ended preprocess_data, "" when none did

dvars == <<listing, clamps, pc, page_no, funds_data, card_i, all_funds, seen,
           fetched, pending_delay>>

\* the variables of discovery but pc
lvars == <<listing, clamps, page_no, funds_data, card_i, all_funds, seen, fetched,
           pending_delay>>

fvars == <<fn_call, fn_ret>>

mvars == <<fund_i, fund_scheme_code, lists, stat_columns, exported, uncaught, stats_answers,
           trace>>

pvars == <<pp_pc, loaded, df, nav_df, holdings_df, sector_df, warnings, pp_raised>>

vars == <<dvars, fvars, mvars, pvars>>

----------------------------------------------------------------------------
(* Bounds and program constants *)

\* MAX_FUNDS is 200 in the source (webscraping.py:18); the model scales it down.
MAX_FUNDS == 3

\* DELAY_SECONDS = 3
DELAY_SECONDS == 3

\* Longest listing the site holds.
MaxPages == 3

\* page_no is tracked exactly below MaxPageNo; the value MaxPageNo stands for
\* every index >= MaxPageNo, all of which the site serves alike (ListingPage).
MaxPageNo == MaxPages + 1

----------------------------------------------------------------------------
(* Python string operations on sequences of characters *)

\* TLC evaluates an operator's argument, and a LET definition, each time it is
\* read. An operation that reads one many times binds it to its value first:
\* The({e : v \in {s}}) evaluates s once and gives e for that value v.

The(S) == CHOOSE r \in S : TRUE

Last(s) == The({v[Len(v)] : v \in {s}})

\* str.startswith at offset i (1-based)
StartsAt(s, i, p) ==
    /\ i + Len(p) - 1 <= Len(s)
    /\ SubSeq(s, i, i + Len(p) - 1) = p

startswith(s, p) == StartsAt(s, 1, p)

\* str.endswith
EndsWith(s, p) == Len(p) <= Len(s) /\ SubSeq(s, Len(s) - Len(p) + 1, Len(s)) = p

RECURSIVE SplitAcc(_, _, _, _, _)
SplitAcc(s, sep, i, cur, acc) ==
    IF i > Len(s) THEN Append(acc, cur)
    ELSE IF StartsAt(s, i, sep)
         THEN SplitAcc(s, sep, i + Len(sep), <<>>, Append(acc, cur))
         ELSE SplitAcc(s, sep, i + 1, Append(cur, s[i]), acc)

\* s.split(sep): left to right, non-overlapping, empty pieces kept
str_split(s, sep) == CHOOSE r \in {SplitAcc(v, sep, 1, <<>>, <<>>) : v \in {s}} : TRUE

RECURSIVE JoinFrom(_, _, _)
JoinFrom(parts, sep, k) ==
    IF k > Len(parts) THEN <<>>
    ELSE IF k = Len(parts) THEN parts[k]
    ELSE parts[k] \o sep \o JoinFrom(parts, sep, k + 1)

\* sep.join(parts)
str_join(parts, sep) == CHOOSE r \in {JoinFrom(v, sep, 1) : v \in {parts}} : TRUE

\* s.replace(old, ''): every non-overlapping occurrence, left to right
str_replace(s, old) == str_join(str_split(s, old), <<>>)

\* number of leading blanks of s, counted from position k
RECURSIVE LeadingBlanks(_, _)
LeadingBlanks(s, k) ==
    IF k <= Len(s) /\ s[k] = " " THEN 1 + LeadingBlanks(s, k + 1) ELSE 0

\* number of trailing blanks of s, counted back from position k
RECURSIVE TrailingBlanks(_, _)
TrailingBlanks(s, k) ==
    IF k >= 1 /\ s[k] = " " THEN 1 + TrailingBlanks(s, k - 1) ELSE 0

StripValue(v) ==
    IF LeadingBlanks(v, 1) = Len(v) THEN <<>>
    ELSE SubSeq(v, 1 + LeadingBlanks(v, 1), Len(v) - TrailingBlanks(v, Len(v)))

\* s.strip()
str_strip(s) == CHOOSE r \in {StripValue(v) : v \in {s}} : TRUE

----------------------------------------------------------------------------
(* Text constants of the source *)

\* 'mutual-funds/'
MutualFunds == <<"m","u","t","u","a","l","-","f","u","n","d","s","/">>

\* 'http'
Http == <<"h","t","t","p">>

\* 'https://groww.in'
GrowwHost == <<"h","t","t","p","s",":","/","/","g","r","o","w","w",".","i","n">>

\* 'NA'
NA == <<"N","A">>

\* suffixes = ['-fund', '-direct', '-growth', '-plan', '-scheme']
suffixes == << <<"-","f","u","n","d">>,
               <<"-","d","i","r","e","c","t">>,
               <<"-","g","r","o","w","t","h">>,
               <<"-","p","l","a","n">>,
               <<"-","s","c","h","e","m","e">> >>

----------------------------------------------------------------------------
(* Python values. A float is held in hundredths (12.5 is Float(1250)); an int *)
(* is held as it is.                                                          *)

None      == [t |-> "none"]
NaN       == [t |-> "nan"]
IntV(n)   == [t |-> "int", v |-> n]
Float(h)  == [t |-> "float", v |-> h]
Str(cs)   == [t |-> "str", v |-> cs]
List(xs)  == [t |-> "list", v |-> xs]
Dict(f)   == [t |-> "dict", v |-> f]

\* no call made yet
NoCall == [fn |-> "none"]

\* bool(x)
Truthy(x) ==
    CASE x.t = "none"  -> FALSE
      [] x.t = "nan"   -> TRUE
      [] x.t = "int"   -> x.v # 0
      [] x.t = "float" -> x.v # 0
      [] x.t = "str"   -> x.v # <<>>
      [] x.t = "list"  -> x.v # <<>>
      [] x.t = "dict"  -> DOMAIN x.v # {}

\* pd.isna(x) of a scalar
isna(x) == x.t \in {"none", "nan"}

\* Mutant of SchemeCodeMissing: the pd.isna test is left out.
SchemeCodeMissing_NoIsna(scheme_code) == ~Truthy(scheme_code)

\* not scheme_code or pd.isna(scheme_code)
SchemeCodeMissing(scheme_code) == ~Truthy(scheme_code) \/ isna(scheme_code)

\* d.get(key, default) of a dict d
dict_get(d, key, default) == IF key \in DOMAIN d.v THEN d.v[key] ELSE default

Returned(v, events) == [kind |-> "return", value |-> v, events |-> events]
Raised(exc, events) == [kind |-> "raise", exc |-> exc, events |-> events]

(* Exceptions: each class and its base class *)
ExcBase ==
    [ConnectionError  |-> "RequestException",
     Timeout          |-> "RequestException",
     RequestsHTTPError |-> "RequestException",
     JSONDecodeError  |-> "ValueError",
     RequestException |-> "OSError",
     UrllibHTTPError  |-> "URLError",
     URLError         |-> "OSError",
     EmptyDataError   |-> "ValueError",
     ParserError      |-> "ValueError",
     OSError          |-> "Exception",
     ValueError       |-> "Exception",
     TypeError        |-> "Exception",
     AttributeError   |-> "Exception",
     KeyError         |-> "Exception",
     OverflowError    |-> "Exception"]

RECURSIVE IsInstance(_, _)
IsInstance(exc, cls) ==
    \/ exc = cls
    \/ exc \in DOMAIN ExcBase /\ IsInstance(ExcBase[exc], cls)

\* an `except (handlers)` clause catches exc
Caught(exc, handlers) == \E h \in handlers : IsInstance(exc, h)

DigitValue ==
    [c \in {"0","1","2","3","4","5","6","7","8","9"} |->
        CASE c = "0" -> 0 [] c = "1" -> 1 [] c = "2" -> 2 [] c = "3" -> 3 [] c = "4" -> 4
          [] c = "5" -> 5 [] c = "6" -> 6 [] c = "7" -> 7 [] c = "8" -> 8 [] c = "9" -> 9]

IsDigits(cs) == cs # <<>> /\ \A k \in 1..Len(cs) : cs[k] \in DOMAIN DigitValue

RECURSIVE DigitsValue(_, _)
\* the number the first k digits of cs write
DigitsValue(cs, k) == IF k = 0 THEN 0 ELSE 10 * DigitsValue(cs, k - 1) + DigitValue[cs[k]]

\* int(text): the number, or ValueError
int_of_str(cs) ==
    The({ IF IsDigits(body) THEN [ok |-> TRUE, v |-> DigitsValue(body, Len(body))]
          ELSE [ok |-> FALSE, exc |-> "ValueError"]
          : body \in {str_strip(cs)} })

\* the hundredths a fraction part writes (digits after the point; two are kept)
FractionHundredths(fs) ==
    IF fs = <<>> THEN 0
    ELSE IF Len(fs) = 1 THEN 10 * DigitValue[fs[1]]
    ELSE 10 * DigitValue[fs[1]] + DigitValue[fs[2]]

\* the float written by the parts of a text around its points
FloatOfParts(parts) ==
    LET ip == parts[1]
        fp == IF Len(parts) = 2 THEN parts[2] ELSE <<>>
        wellformed ==
            /\ Len(parts) <= 2
            /\ ip # <<>> \/ fp # <<>>
            /\ ip = <<>> \/ IsDigits(ip)
            /\ fp = <<>> \/ IsDigits(fp)
    IN  IF wellformed
        THEN [ok |-> TRUE,
              v  |-> 100 * (IF ip = <<>> THEN 0 ELSE DigitsValue(ip, Len(ip)))
                     + FractionHundredths(fp)]
        ELSE [ok |-> FALSE, exc |-> "ValueError"]

\* float(text): digits with at most one point, in hundredths, or ValueError
float_of_str(cs) ==
    The({ FloatOfParts(parts) : parts \in {str_split(str_strip(cs), <<".">>)} })

\* float(x) of a value x
FloatOfValue(x) ==
    CASE x.t = "float" -> [ok |-> TRUE, v |-> x]
      [] x.t = "nan"   -> [ok |-> TRUE, v |-> NaN]
      [] x.t = "int"   -> [ok |-> TRUE, v |-> Float(100 * x.v)]
      [] x.t = "str"   -> The({ IF f.ok THEN [ok |-> TRUE, v |-> Float(f.v)]
                                ELSE [ok |-> FALSE, exc |-> "ValueError"]
                                : f \in {float_of_str(x.v)} })
      [] OTHER         -> [ok |-> FALSE, exc |-> "TypeError"]

\* float(x) of any value: the float, or the exception float() raises
float_of(x) == The({ FloatOfValue(v) : v \in {x} })

\* datetime.utcfromtimestamp(days * 86400): the civil date <<y, m, d>>
civil_from_days(days) ==
    LET z   == days + 719468
        era == z \div 146097
        doe == z - era * 146097
        yoe == (doe - doe \div 1460 + doe \div 36524 - doe \div 146096) \div 365
        doy == doe - (365 * yoe + yoe \div 4 - yoe \div 100)
        mp  == (5 * doy + 2) \div 153
        d   == doy - (153 * mp + 2) \div 5 + 1
        m   == IF mp < 10 THEN mp + 3 ELSE mp - 9
        y   == yoe + era * 400 + (IF m <= 2 THEN 1 ELSE 0)
    IN  <<y, m, d>>

\* dates <<y, m, d>> in calendar order
DateLeq(a, b) ==
    \/ a[1] < b[1]
    \/ a[1] = b[1] /\ a[2] < b[2]
    \/ a[1] = b[1] /\ a[2] = b[2] /\ a[3] <= b[3]

----------------------------------------------------------------------------
(* fetch_amfi_nav *)

\* start_date='2024-05-05', end_date='2025-05-05'
DefaultStartDate == <<2024, 5, 5>>
DefaultEndDate   == <<2025, 5, 5>>

MonthNames ==
    << <<"J","a","n">>, <<"F","e","b">>, <<"M","a","r">>, <<"A","p","r">>,
       <<"M","a","y">>, <<"J","u","n">>, <<"J","u","l">>, <<"A","u","g">>,
       <<"S","e","p">>, <<"O","c","t">>, <<"N","o","v">>, <<"D","e","c">> >>

\* the date written by day, month name and year
DmyOfParts(parts) ==
    LET wellformed ==
            /\ Len(parts) = 3
            /\ IsDigits(parts[1]) /\ Len(parts[1]) <= 2
            /\ \E m \in 1..12 : MonthNames[m] = parts[2]
            /\ IsDigits(parts[3]) /\ Len(parts[3]) = 4
            /\ DigitsValue(parts[1], Len(parts[1])) \in 1..31
    IN  IF wellformed
        THEN [ok |-> TRUE,
              v  |-> << DigitsValue(parts[3], 4),
                        CHOOSE m \in 1..12 : MonthNames[m] = parts[2],
                        DigitsValue(parts[1], Len(parts[1])) >>]
        ELSE [ok |-> FALSE, exc |-> "ValueError"]

\* pd.to_datetime(text, format='%d-%b-%Y'): the date <<y, m, d>>, or ValueError
parse_dmy(cs) == The({ DmyOfParts(parts) : parts \in {str_split(cs, <<"-">>)} })

\* int(x) of a value x
IntOfValue(x) ==
    CASE x.t = "str"   -> The({ IF n.ok THEN [ok |-> TRUE, v |-> IntV(n.v)]
                                ELSE [ok |-> FALSE, exc |-> "ValueError"]
                                : n \in {int_of_str(x.v)} })
      [] x.t = "int"   -> [ok |-> TRUE, v |-> x]
      [] x.t = "float" -> [ok |-> TRUE, v |-> IntV(x.v \div 100)]
      [] x.t = "nan"   -> [ok |-> FALSE, exc |-> "ValueError"]
      [] OTHER         -> [ok |-> FALSE, exc |-> "TypeError"]

\* int(scheme_code)
int_of(x) == The({ IntOfValue(v) : v \in {x} })

\* the first exception among conversion results, or "" when every one succeeded
FirstFailure(results) ==
    LET bad == {i \in 1..Len(results) : ~results[i].ok}
    IN  IF bad = {} THEN ""
        ELSE results[CHOOSE i \in bad : \A j \in bad : i <= j].exc

\* df['Date'] = pd.to_datetime(...): the date of every row
AmfiDates(rows) == [i \in 1..Len(rows) |-> parse_dmy(rows[i].date)]

\* float(entry['NAV']) of every row
AmfiNavs(rows) == [i \in 1..Len(rows) |-> float_of(rows[i].nav)]

\* the rows of the window, formatted
AmfiFormat(rows, dates, start_date, end_date) ==
    The({ The({ IF FirstFailure(navs) # ""
                THEN [ok |-> FALSE, exc |-> FirstFailure(navs)]
                ELSE [ok |-> TRUE,
                      v  |-> [k \in 1..Len(inrange) |->
                                 [date |-> dates[inrange[k]].v, nav |-> navs[k].v]]]
                : navs \in {AmfiNavs([k \in 1..Len(inrange) |-> rows[inrange[k]]])} })
          : inrange \in {SelectSeq([i \in 1..Len(rows) |-> i], LAMBDA i :
                             /\ DateLeq(start_date, dates[i].v)
                             /\ DateLeq(dates[i].v, end_date))} })

\* the body of the try block once the feed is read
AmfiRows(code, start_date, end_date, feed_rows) ==
    The({ The({ IF FirstFailure(dates) # ""
                THEN [ok |-> FALSE, exc |-> FirstFailure(dates)]
                ELSE AmfiFormat(mine, dates, start_date, end_date)
                : dates \in {AmfiDates(mine)} })
          : mine \in {SelectSeq(feed_rows, LAMBDA r : r.code.t = "int" /\ r.code.v = code.v)} })

\* the try block
AmfiTry(scheme_code, start_date, end_date, feed) ==
    IF feed.t = "exc" THEN [ok |-> FALSE, exc |-> feed.exc]
    ELSE The({ IF ~code.ok THEN [ok |-> FALSE, exc |-> code.exc]
               ELSE AmfiRows(code.v, start_date, end_date, feed.rows)
               : code \in {int_of(scheme_code)} })

\* the request of the feed
AmfiGet == <<[ev |-> "GET", url |-> "amfi"]>>

\* feed: what the download of NAVAll.txt gives, an exception of pd.read_csv or
\* the rows [code, date, nav] it parsed
fetch_amfi_nav(scheme_code, start_date, end_date, feed) ==
    The({ IF got.ok THEN Returned(got.v, AmfiGet)
          ELSE IF Caught(got.exc, {"EmptyDataError", "RequestException", "ValueError"})
               THEN Returned(<<>>, AmfiGet)
               ELSE Raised(got.exc, AmfiGet)
          : got \in {AmfiTry(scheme_code, start_date, end_date, feed)} })

----------------------------------------------------------------------------
(* extract_historical_nav *)

\* timestamp_ms / 1000 and utcfromtimestamp(...).strftime('%Y-%m-%d')
date_of_timestamp(ts) ==
    CASE ts.t = "int"   -> [ok |-> TRUE, v |-> civil_from_days(ts.v \div 86400000)]
      [] ts.t = "float" -> [ok |-> TRUE, v |-> civil_from_days((ts.v \div 100) \div 86400000)]
      [] ts.t = "nan"   -> [ok |-> FALSE, exc |-> "ValueError"]
      [] OTHER          -> [ok |-> FALSE, exc |-> "TypeError"]

\* one entry of nav_data: the formatted point, or nothing when it is malformed
FormatNavEntry(entry) ==
    IF entry.t = "list" /\ Len(entry.v) = 2
    THEN The({ IF nav.ok /\ date.ok THEN <<[date |-> date.v, nav |-> nav.v]>> ELSE <<>>
               : nav \in {float_of(entry.v[2])}, date \in {date_of_timestamp(entry.v[1])} })
    ELSE <<>>

RECURSIVE FormatNavEntries(_, _)
\* the loop over nav_data from position k on: malformed entries are skipped
FormatNavEntries(entries, k) ==
    IF k > Len(entries) THEN <<>>
    ELSE FormatNavEntry(entries[k]) \o FormatNavEntries(entries, k + 1)

\* the request of the graph API
NavGet(scheme_code, months) ==
    <<[ev |-> "GET", url |-> "graph", code |-> scheme_code, months |-> months]>>

\* return fetch_amfi_nav(scheme_code)
NavFallback(scheme_code, get, feed) ==
    The({ IF r.kind = "return"
          THEN Returned(r.value, get \o <<[ev |-> "CALL", fn |-> "fetch_amfi_nav",
                                           args |-> <<scheme_code, DefaultStartDate,
                                                      DefaultEndDate>>]>> \o r.events)
          ELSE Raised(r.exc, get \o <<[ev |-> "CALL", fn |-> "fetch_amfi_nav",
                                      args |-> <<scheme_code, DefaultStartDate,
                                                 DefaultEndDate>>]>> \o r.events)
          : r \in {fetch_amfi_nav(scheme_code, DefaultStartDate, DefaultEndDate, feed)} })

\* Mutant of NavExcept: a caught failure returns an empty list, without the fallback.
NavExcept_NoFallback(exc, scheme_code, get, feed) ==
    IF Caught(exc, {"RequestException", "ValueError", "KeyError"})
    THEN Returned(<<>>, get)
    ELSE Raised(exc, get)

\* except (requests.RequestException, ValueError, KeyError), then the fallback
NavExcept(exc, scheme_code, get, feed) ==
    IF Caught(exc, {"RequestException", "ValueError", "KeyError"})
    THEN NavFallback(scheme_code, get, feed)
    ELSE Raised(exc, get)

\* the try block for a decoded response: what it returns, or the exception
NavOfResponse(data) ==
    IF data.t # "dict" THEN [ok |-> FALSE, exc |-> "AttributeError"]
    ELSE The({ IF folio.t # "dict" THEN [ok |-> FALSE, exc |-> "AttributeError"]
               ELSE The({ IF ~Truthy(nav_data) THEN [ok |-> TRUE, v |-> <<>>]
                          ELSE IF nav_data.t = "list"
                               THEN [ok |-> TRUE, v |-> FormatNavEntries(nav_data.v, 1)]
                          ELSE IF nav_data.t \in {"dict", "str"}
                               THEN [ok |-> TRUE, v |-> <<>>]
                          ELSE [ok |-> FALSE, exc |-> "TypeError"]
                          : nav_data \in {dict_get(folio, "data", List(<<>>))} })
               : folio \in {dict_get(data, "folio", Dict(<<>>))} })

\* the try block
NavTry(primary) ==
    IF primary.t = "exc" THEN [ok |-> FALSE, exc |-> primary.exc]
    ELSE NavOfResponse(primary.data)

\* primary: what the graph API gives, an exception of requests.get,
\* raise_for_status or response.json, or the decoded JSON
extract_historical_nav(scheme_code, months, primary, feed) ==
    IF SchemeCodeMissing(scheme_code) THEN Returned(<<>>, <<>>)
    ELSE The({ IF got.ok THEN Returned(got.v, NavGet(scheme_code, months))
               ELSE NavExcept(got.exc, scheme_code, NavGet(scheme_code, months), feed)
               : got \in {NavTry(primary)} })

----------------------------------------------------------------------------
(* fetch_page and extract_top_holdings *)

\* fetch_page(url): the request it makes
PageGet(url) == <<[ev |-> "GET", url |-> "page", link |-> url]>>

\* cols[3].text.strip().replace('%', '') and float(), 0.0 on ValueError
HoldingPercentage(cell) ==
    The({ IF f.ok THEN Float(f.v) ELSE Float(0)
          : f \in {float_of_str(str_replace(str_strip(cell), <<"%">>))} })

RECURSIVE HoldingsOfRows(_, _)
\* the loop over rows from position k on: a row of fewer than 4 cells is skipped
HoldingsOfRows(rows, k) ==
    IF k > Len(rows) THEN <<>>
    ELSE IF Len(rows[k]) >= 4
         THEN <<[company |-> str_strip(rows[k][1]),
                 percentage |-> HoldingPercentage(rows[k][4])]>> \o HoldingsOfRows(rows, k + 1)
         ELSE HoldingsOfRows(rows, k + 1)

\* Mutant of Slice: the slice has no upper end.
Slice_NoUpperEnd(q, a, b) == SubSeq(q, a + 1, Len(q))

\* s[a:b] of a sequence, 0-based like Python
Slice(q, a, b) == SubSeq(q, a + 1, IF b < Len(q) THEN b ELSE Len(q))

\* page: what fetch_page(fund_link) gives: ok = FALSE for None, else the
\* document; its holdings table [present, has_tbody, rows], each row the texts
\* of its td cells (a header row has none)
extract_top_holdings(scheme_code, fund_link, page) ==
    IF SchemeCodeMissing(scheme_code) \/ fund_link = <<>> THEN Returned(<<>>, <<>>)
    ELSE IF ~page.ok THEN Returned(<<>>, PageGet(fund_link))
    ELSE IF ~page.table.present THEN Returned(<<>>, PageGet(fund_link))
    ELSE The({ Returned(HoldingsOfRows(rows, 1), PageGet(fund_link))
               : rows \in {IF page.table.has_tbody
                           THEN Slice(page.table.rows, 0, 5)
                           ELSE Slice(page.table.rows, 1, 6)} })

----------------------------------------------------------------------------
(* extract_detailed_fund_data and extract_scheme_code *)

\* pat in text
Contains(text, pat) == The({ \E i \in 1..Len(t) : StartsAt(t, i, pat) : t \in {text} })

RECURSIVE RemoveEach(_, _, _)
\* text.replace(olds[k], '') for each of olds in turn
RemoveEach(text, olds, k) ==
    IF k > Len(olds) THEN text ELSE RemoveEach(str_replace(text, olds[k]), olds, k + 1)

\* the string literals of extract_detailed_fund_data
Literal ==
    [rupee         |-> <<"₹">>,
     comma         |-> <<",">>,
     crore         |-> <<"C","r">>,
     fund_size     |-> <<"F","u","n","d"," ","s","i","z","e">>,
     nav           |-> <<"N","A","V">>,
     min_first     |-> <<"M","i","n","."," ","f","o","r"," ","1","s","t"," ",
                         "i","n","v","e","s","t","m","e","n","t">>,
     min_sip       |-> <<"M","i","n","."," ","f","o","r"," ","S","I","P">>,
     exit_load     |-> <<"E","x","i","t"," ","l","o","a","d">>,
     no_exit_load  |-> <<"N","o"," ","e","x","i","t"," ","l","o","a","d">>,
     zero_percent  |-> <<"0","%">>,
     expense_ratio |-> <<"E","x","p","e","n","s","e"," ","r","a","t","i","o">>]

\* float() of the stripped text without the marks in `removed`
NumberOf(text, removed) == float_of_str(RemoveEach(str_strip(text), removed, 1))

RECURSIVE ScanLabelled(_, _, _, _)
\* for elem in elements, from position k on: the number of the first element
\* whose previous sibling holds the label and whose text parses; nan without one
ScanLabelled(elements, label, removed, k) ==
    IF k > Len(elements) THEN NaN
    ELSE IF Contains(elements[k].previous, label)
         THEN The({ IF num.ok THEN Float(num.v)
                    ELSE ScanLabelled(elements, label, removed, k + 1)
                    : num \in {NumberOf(elements[k].text, removed)} })
         ELSE ScanLabelled(elements, label, removed, k + 1)

RECURSIVE ScanRating(_, _)
\* for elem in rating_elements: 'NA' is passed over, the first number is kept
ScanRating(texts, k) ==
    IF k > Len(texts) THEN NaN
    ELSE The({ IF text = NA THEN ScanRating(texts, k + 1)
               ELSE The({ IF num.ok THEN Float(num.v) ELSE ScanRating(texts, k + 1)
                          : num \in {float_of_str(text)} })
               : text \in {str_strip(texts[k])} })

RECURSIVE DigitRunEnd(_, _)
\* the first position from i on that holds no digit
DigitRunEnd(text, i) ==
    IF i <= Len(text) /\ text[i] \in DOMAIN DigitValue THEN DigitRunEnd(text, i + 1) ELSE i

\* (\d+\.\d+)% matched at position i: group 1, or <<>> without a match there
PercentMatchAt(text, i) ==
    The({ IF j > i /\ j <= Len(text) /\ text[j] = "."
          THEN The({ IF e > j + 1 /\ e <= Len(text) /\ text[e] = "%"
                     THEN SubSeq(text, i, e - 1) ELSE <<>>
                     : e \in {DigitRunEnd(text, j + 1)} })
          ELSE <<>>
          : j \in {DigitRunEnd(text, i)} })

RECURSIVE PercentSearchFrom(_, _)
PercentSearchFrom(text, i) ==
    IF i > Len(text) THEN <<>>
    ELSE The({ IF m # <<>> THEN m ELSE PercentSearchFrom(text, i + 1)
               : m \in {PercentMatchAt(text, i)} })

\* re.search(r'(\d+\.\d+)%', text): group 1 of the leftmost match, <<>> without one
PercentSearch(text) == The({ PercentSearchFrom(t, 1) : t \in {text} })

RECURSIVE ScanExitLoad(_, _)
\* for elem in exit_load_elements, from position k on
ScanExitLoad(paragraphs, k) ==
    IF k > Len(paragraphs) THEN NaN
    ELSE The({ IF ~Contains(text, Literal.exit_load) THEN ScanExitLoad(paragraphs, k + 1)
               ELSE IF Contains(text, Literal.no_exit_load)
                       \/ Contains(text, Literal.zero_percent) THEN Float(0)
               ELSE The({ IF m # <<>> THEN Float(float_of_str(m).v)
                          ELSE ScanExitLoad(paragraphs, k + 1)
                          : m \in {PercentSearch(text)} })
               : text \in {str_strip(paragraphs[k])} })

RECURSIVE ScanExpenseRatio(_, _)
ScanExpenseRatio(paragraphs, k) ==
    IF k > Len(paragraphs) THEN NaN
    ELSE The({ IF ~Contains(text, Literal.expense_ratio) THEN ScanExpenseRatio(paragraphs, k + 1)
               ELSE The({ IF m # <<>> THEN Float(float_of_str(m).v)
                          ELSE ScanExpenseRatio(paragraphs, k + 1)
                          : m \in {PercentSearch(text)} })
               : text \in {str_strip(paragraphs[k])} })

\* page: what fetch_page(url) gives: ok = FALSE for None, else the document:
\*   elements      the td/div/span of the scanned classes, each with the text
\*                 of its previous labelled sibling (<<>> without one)
\*   min_elements  the td.bodyLargeHeavy cells, likewise
\*   ratings       the texts of the rating cells
\*   paragraphs    the texts of the p.bodyLarge elements
\*   scripts       the texts of the script tags
\*   table         the holdings table
\* The result is [aum, nav, minimum, minimum_sip, rating, expense_ratio, exit_load].
extract_detailed_fund_data(url, page) ==
    IF ~page.ok THEN Returned(<<NaN, NaN, NaN, NaN, NaN, NaN, NaN>>, PageGet(url))
    ELSE The({ Returned(<<aum, nav, IF minimum.t = "nan" THEN minimum_sip ELSE minimum,
                          minimum_sip, rating, expense_ratio, exit_load>>, PageGet(url))
               : aum           \in {ScanLabelled(page.elements, Literal.fund_size,
                                                 <<Literal.rupee, Literal.comma, Literal.crore>>, 1)},
                 nav           \in {ScanLabelled(page.elements, Literal.nav,
                                                 <<Literal.rupee, Literal.comma>>, 1)},
                 minimum       \in {ScanLabelled(page.min_elements, Literal.min_first,
                                                 <<Literal.rupee, Literal.comma>>, 1)},
                 minimum_sip   \in {ScanLabelled(page.min_elements, Literal.min_sip,
                                                 <<Literal.rupee, Literal.comma>>, 1)},
                 rating        \in {ScanRating(page.ratings, 1)},
                 expense_ratio \in {ScanExpenseRatio(page.paragraphs, 1)},
                 exit_load     \in {ScanExitLoad(page.paragraphs, 1)} })

\* '"scheme_code":"'
SchemeCodeKey == <<"\"","s","c","h","e","m","e","_","c","o","d","e","\"",":","\"">>

\* "scheme_code":"(\d+)" matched at position i: group 1, or <<>> without a match there
CodeMatchAt(text, i) ==
    IF ~StartsAt(text, i, SchemeCodeKey) THEN <<>>
    ELSE The({ IF e > i + Len(SchemeCodeKey) /\ e <= Len(text) /\ text[e] = "\""
               THEN SubSeq(text, i + Len(SchemeCodeKey), e - 1) ELSE <<>>
               : e \in {DigitRunEnd(text, i + Len(SchemeCodeKey))} })

RECURSIVE CodeSearchFrom(_, _)
CodeSearchFrom(text, i) ==
    IF i > Len(text) THEN <<>>
    ELSE The({ IF m # <<>> THEN m ELSE CodeSearchFrom(text, i + 1)
               : m \in {CodeMatchAt(text, i)} })

RECURSIVE ScanScripts(_, _)
\* for script in scripts, from position k on: the code of the first that holds one
ScanScripts(scripts, k) ==
    IF k > Len(scripts) THEN NaN
    ELSE The({ IF m # <<>> THEN Str(m) ELSE ScanScripts(scripts, k + 1)
               : m \in {The({ CodeSearchFrom(t, 1) : t \in {scripts[k]} })} })

extract_scheme_code(url, page) ==
    IF ~page.ok THEN Returned(NaN, PageGet(url))
    ELSE Returned(ScanScripts(page.scripts, 1), PageGet(url))

----------------------------------------------------------------------------
(* extract_portfolio_stats *)

\* retries=3, retry_delay=5
DefaultRetries == 3
DefaultRetryDelay == 5

\* the record returned without a scheme code and after the last failed attempt
UnavailableStats ==
    [pe |-> NaN, pb |-> NaN, debt_per |-> NaN, equity_per |-> NaN,
     average_maturity |-> NaN, yield_to_maturity |-> NaN,
     asset_allocation |-> [equity |-> NaN, debt |-> NaN, cash |-> NaN, total_aum |-> NaN],
     sector_allocation |-> <<>>,
     equity_aum |-> NaN]

IsNumber(x) == x.t \in {"int", "float"}

\* a number in hundredths
Hundredths(x) == IF x.t = "int" THEN 100 * x.v ELSE x.v

\* Mutant of HybridScale: the raw values are kept when their sum is positive.
HybridScale_NoScale(debt, equity) ==
    IF ~(IsNumber(debt) /\ IsNumber(equity)) THEN [ok |-> FALSE, exc |-> "TypeError"]
    ELSE IF Hundredths(debt) + Hundredths(equity) > 0
         THEN [ok |-> TRUE, debt_per |-> Float(Hundredths(debt)),
               equity_per |-> Float(Hundredths(equity))]
         ELSE [ok |-> TRUE, debt_per |-> NaN, equity_per |-> NaN]

\* the Hybrid rule for numbers debt and equity: scaled to sum to 100
HybridScale(debt, equity) ==
    IF ~(IsNumber(debt) /\ IsNumber(equity)) THEN [ok |-> FALSE, exc |-> "TypeError"]
    ELSE The({ IF total > 0
               THEN [ok |-> TRUE,
                     debt_per   |-> Float((Hundredths(debt) * 10000) \div total),
                     equity_per |-> Float((Hundredths(equity) * 10000) \div total)]
               ELSE [ok |-> TRUE, debt_per |-> NaN, equity_per |-> NaN]
               : total \in {Hundredths(debt) + Hundredths(equity)} })

\* the Hybrid rule: a missing debt_per or equity_per counts as 0
HybridSplit(debt_per, equity_per) ==
    HybridScale(IF ~isna(debt_per) THEN debt_per ELSE IntV(0),
                IF ~isna(equity_per) THEN equity_per ELSE IntV(0))

\* stats = {'pe': data.get('pe', np.nan), ...}
RawStats(data) ==
    [pe |-> dict_get(data, "pe", NaN),
     pb |-> dict_get(data, "pb", NaN),
     debt_per |-> dict_get(data, "debt_per", NaN),
     equity_per |-> dict_get(data, "equity_per", NaN),
     average_maturity |-> dict_get(data, "average_maturity", NaN),
     yield_to_maturity |-> dict_get(data, "yield_to_maturity", NaN)]

\* Mutant of TypeRules: the rules of Commodities are left out.
TypeRules_NoCommodities(raw, fund_type) ==
    IF fund_type # "Hybrid"
    THEN [raw EXCEPT !.average_maturity = NaN, !.yield_to_maturity = NaN]
    ELSE raw

\* the rules of Commodities and of every type but Hybrid
TypeRules(raw, fund_type) ==
    The({ IF fund_type # "Hybrid"
          THEN [s1 EXCEPT !.average_maturity = NaN, !.yield_to_maturity = NaN]
          ELSE s1
          : s1 \in {IF fund_type = "Commodities"
                    THEN [raw EXCEPT !.pe = NaN, !.pb = NaN,
                                     !.debt_per = IntV(0), !.equity_per = IntV(0)]
                    ELSE raw} })

\* the six statistics after the rules of the fund type
StatsByType(data, fund_type) ==
    The({ IF fund_type # "Hybrid" THEN [ok |-> TRUE, v |-> s2]
          ELSE The({ IF ~h.ok THEN [ok |-> FALSE, exc |-> h.exc]
                     ELSE [ok |-> TRUE,
                           v  |-> [s2 EXCEPT !.debt_per = h.debt_per,
                                             !.equity_per = h.equity_per]]
                     : h \in {HybridSplit(s2.debt_per, s2.equity_per)} })
          : s2 \in {TypeRules(RawStats(data), fund_type)} })

\* asset_allocation: float() of equity, debt, cash (default 0) and of aum (default nan)
AssetAllocationOf(data) ==
    The({ IF asset_breakdown.t # "dict" THEN [ok |-> FALSE, exc |-> "AttributeError"]
          ELSE The({ IF ~equity.ok THEN [ok |-> FALSE, exc |-> equity.exc]
                     ELSE IF ~debt.ok THEN [ok |-> FALSE, exc |-> debt.exc]
                     ELSE IF ~cash.ok THEN [ok |-> FALSE, exc |-> cash.exc]
                     ELSE IF ~aum.ok THEN [ok |-> FALSE, exc |-> aum.exc]
                     ELSE [ok |-> TRUE,
                           v  |-> [equity |-> equity.v, debt |-> debt.v,
                                   cash |-> cash.v, total_aum |-> aum.v]]
                     : equity \in {float_of(dict_get(asset_breakdown, "equity", IntV(0)))},
                       debt   \in {float_of(dict_get(asset_breakdown, "debt", IntV(0)))},
                       cash   \in {float_of(dict_get(asset_breakdown, "cash", IntV(0)))},
                       aum    \in {float_of(dict_get(data, "aum", NaN))} })
          : asset_breakdown \in {dict_get(data, "asset_allocation", Dict(<<>>))} })

RECURSIVE InsertSector(_, _, _)
\* e put into a list sorted by percentage, descending, after the entries (from
\* position k on) that are not smaller (sorted() is stable)
InsertSector(sorted, e, k) ==
    IF k > Len(sorted) THEN Append(sorted, e)
    ELSE IF sorted[k].percentage.v >= e.percentage.v
         THEN InsertSector(sorted, e, k + 1)
         ELSE SubSeq(sorted, 1, k - 1) \o <<e>> \o SubSeq(sorted, k, Len(sorted))

\* Mutant of SortSectors: the entries are left in the order of the response.
SortSectors_Unsorted(entries, k, sorted) == entries

RECURSIVE SortSectors(_, _, _)
\* sorted(entries, key=percentage, reverse=True): entries k.. put into sorted
SortSectors(entries, k, sorted) ==
    IF k > Len(entries) THEN sorted
    ELSE The({ SortSectors(entries, k + 1, next)
               : next \in {InsertSector(sorted, entries[k], 1)} })

\* the items of a sector map in the order of the response, each with float()
\* of its percentage
SectorItems(sector_breakdown) ==
    The({ [i \in 1..Len(keys) |->
              The({ IF pct.ok THEN [ok |-> TRUE, sector |-> keys[i], percentage |-> pct.v]
                    ELSE [ok |-> FALSE, exc |-> pct.exc]
                    : pct \in {float_of(sector_breakdown.v[keys[i]])} })]
          : keys \in {IF "order" \in DOMAIN sector_breakdown
                      THEN sector_breakdown.order ELSE <<>>} })

\* sector_allocation: the items of equity_sector_per, sorted by percentage
\* descending, the first 4
SectorAllocationOf(data) ==
    The({ IF sector_breakdown.t # "dict" THEN [ok |-> FALSE, exc |-> "AttributeError"]
          ELSE The({ IF FirstFailure(items) # ""
                     THEN [ok |-> FALSE, exc |-> FirstFailure(items)]
                     ELSE [ok |-> TRUE,
                           v  |-> Slice(SortSectors(
                                      [i \in 1..Len(items) |->
                                          [sector |-> items[i].sector,
                                           percentage |-> items[i].percentage]],
                                      1, <<>>), 0, 4)]
                     : items \in {SectorItems(sector_breakdown)} })
          : sector_breakdown \in {dict_get(data, "equity_sector_per", Dict(<<>>))} })

\* equity_aum = (equity / 100) * total_aum, nan without total_aum
EquityAum(asset_allocation) ==
    IF asset_allocation.total_aum.t = "nan" \/ asset_allocation.equity.t = "nan" THEN NaN
    ELSE Float((asset_allocation.equity.v * asset_allocation.total_aum.v) \div 10000)

\* the body of the try block for a decoded response
StatsOfResponse(data, fund_type) ==
    IF data.t # "dict" THEN [ok |-> FALSE, exc |-> "AttributeError"]
    ELSE The({ IF ~stats.ok THEN [ok |-> FALSE, exc |-> stats.exc]
               ELSE The({ IF ~asset.ok THEN [ok |-> FALSE, exc |-> asset.exc]
                          ELSE The({ IF ~sector.ok THEN [ok |-> FALSE, exc |-> sector.exc]
                                     ELSE [ok |-> TRUE,
                                           v  |-> [pe |-> stats.v.pe, pb |-> stats.v.pb,
                                                   debt_per |-> stats.v.debt_per,
                                                   equity_per |-> stats.v.equity_per,
                                                   average_maturity |-> stats.v.average_maturity,
                                                   yield_to_maturity |-> stats.v.yield_to_maturity,
                                                   asset_allocation |-> asset.v,
                                                   sector_allocation |-> sector.v,
                                                   equity_aum |-> EquityAum(asset.v)]]
                                     : sector \in {SectorAllocationOf(data)} })
                          : asset \in {AssetAllocationOf(data)} })
               : stats \in {StatsByType(data, fund_type)} })

\* one attempt: the request, then the try block
StatsAttempt(response, fund_type) ==
    IF response.t = "exc" THEN [ok |-> FALSE, exc |-> response.exc]
    ELSE StatsOfResponse(response.data, fund_type)

StatsGet(scheme_code) == [ev |-> "GET", url |-> "stats", code |-> scheme_code]
Sleep(seconds) == [ev |-> "SLEEP", seconds |-> seconds]

RECURSIVE StatsLoop(_, _, _, _, _, _, _)
\* for attempt in range(retries), from `attempt` on; a loop that ends without
\* a return makes the function return None
StatsLoop(scheme_code, fund_type, retries, retry_delay, responses, attempt, events) ==
    IF attempt >= retries THEN Returned(None, events)
    ELSE The({ IF got.ok THEN Returned(got.v, Append(ev, Sleep(1)))
               ELSE IF Caught(got.exc, {"ValueError", "KeyError", "RequestException"})
                    THEN IF attempt < retries - 1
                         THEN StatsLoop(scheme_code, fund_type, retries, retry_delay,
                                        responses, attempt + 1,
                                        Append(ev, Sleep(retry_delay)))
                         ELSE Returned(UnavailableStats, ev)
                    ELSE Raised(got.exc, ev)
               : got \in {StatsAttempt(responses[attempt + 1], fund_type)},
                 ev  \in {Append(events, StatsGet(scheme_code))} })

\* responses: what the stats API gives at each attempt, an exception of
\* requests.get, raise_for_status or response.json, or the decoded JSON
extract_portfolio_stats(scheme_code, fund_type, retries, retry_delay, responses) ==
    IF SchemeCodeMissing(scheme_code) THEN Returned(UnavailableStats, <<>>)
    ELSE StatsLoop(scheme_code, fund_type, retries, retry_delay, responses, 0, <<>>)

----------------------------------------------------------------------------
(* normalize_link *)

RECURSIVE RemoveSuffixes(_, _)
\* for suffix in suffixes: slug = slug.replace(suffix, '')
RemoveSuffixes(slug, k) ==
    IF k > Len(suffixes) THEN slug
    ELSE RemoveSuffixes(str_replace(slug, suffixes[k]), k + 1)

normalize_link(link) ==
    LET slug0 == Head(str_split(Last(str_split(link, MutualFunds)), <<"?">>))
        slug1 == RemoveSuffixes(slug0, 1)
    IN  str_join(SelectSeq(str_split(slug1, <<"-">>), LAMBDA t : t # <<>>), <<"-">>)

\* key = (fund['name'].strip(), normalize_link(fund['link']))
FundKey(fund) == <<str_strip(fund.name), normalize_link(fund.link)>>

----------------------------------------------------------------------------
(* The listing site: the cards and pages it can serve *)

Rel(slug) == <<"/">> \o MutualFunds \o slug
Abs(slug) == GrowwHost \o <<"/">> \o MutualFunds \o slug

\* a fund card: its name, the risk and type labels and the return cells of its
\* parent link, and the href of that link
RawCard(n, t, h, p) ==
    [name |-> n, risk |-> <<"H","i","g","h">>, type |-> t,
     returns |-> <<<<" ","1","2",".","5","%"," ">>, <<"N","A">>>>, href |-> h, has_parent |-> p]

CardA_DirectGrowth ==
    RawCard(<<"A">>, "Equity",
            Rel(<<"a","-","d","i","r","e","c","t","-","g","r","o","w","t","h">>), TRUE)
CardA_Query ==
    RawCard(<<" ","A"," ">>, "Equity", Abs(<<"a","?","u","=","1">>), TRUE)
CardA_Plain ==
    RawCard(<<"A">>, "Equity", Abs(<<"a">>), TRUE)
\* a query string that itself holds a path under mutual-funds/
CardA_QueryPath ==
    RawCard(<<"A">>, "Equity", Abs(<<"a","?","r","=","/">> \o MutualFunds \o <<"b">>), TRUE)
CardB_Fund ==
    RawCard(<<"B">>, "Hybrid", Rel(<<"b","-","f","u","n","d">>), TRUE)
\* another name on the slug of A
CardB_SlugA ==
    RawCard(<<"B">>, "Hybrid", Rel(<<"a","-","p","l","a","n">>), TRUE)
CardC ==
    RawCard(<<"C">>, "Commodities", Rel(<<"c","-","s","c","h","e","m","e">>), TRUE)
CardNoParent ==
    RawCard(<<"D">>, "Debt", Rel(<<"d">>), FALSE)
CardNoHref ==
    RawCard(<<"E">>, "Debt", <<>>, TRUE)

\* A response of the listing URL: ok = FALSE when fetch_page returns None.
PageFail    == [ok |-> FALSE, cards |-> <<>>]
PageNoCards == [ok |-> TRUE,  cards |-> <<>>]
PageAAB     == [ok |-> TRUE,  cards |-> <<CardA_DirectGrowth, CardA_Query, CardB_Fund>>]
PageAQC     == [ok |-> TRUE,  cards |-> <<CardA_Plain, CardA_QueryPath, CardC>>]
PageBB      == [ok |-> TRUE,  cards |-> <<CardB_Fund, CardB_SlugA, CardNoParent>>]
PageSkipped == [ok |-> TRUE,  cards |-> <<CardNoParent, CardNoHref>>]

PagePool == {PageFail, PageNoCards, PageAAB, PageAQC, PageBB, PageSkipped}

RECURSIVE SeqsUpTo(_, _)
\* every sequence over S of length at most n
SeqsUpTo(S, n) ==
    IF n = 0 THEN {<<>>}
    ELSE LET shorter == SeqsUpTo(S, n - 1)
         IN  shorter \cup {Append(q, x) : q \in shorter, x \in S}

\* What the site answers for page index n.
ListingPage(n) ==
    IF n < Len(listing) THEN listing[n + 1]
    ELSE IF clamps /\ listing # <<>> THEN Last(listing)
    ELSE PageNoCards

----------------------------------------------------------------------------
(* extract_fund_overview *)

\* link = parent.get('href', ''); prefixed with the host unless it starts with 'http'
CardLink(href) ==
    IF href # <<>> /\ ~startswith(href, Http) THEN GrowwHost \o href ELSE href

\* returns = the first 3 return cells, stripped, padded with 'NA' to 3
CardReturns(cells) ==
    [k \in 1..3 |-> IF k <= Len(cells) THEN str_strip(cells[k]) ELSE NA]

RECURSIVE CardsToFunds(_)
CardsToFunds(cards) ==
    IF cards = <<>> THEN <<>>
    ELSE LET card == Head(cards)
             name == str_strip(card.name)
             link == CardLink(card.href)
             rest == CardsToFunds(Tail(cards))
         IN  IF ~card.has_parent THEN rest
             ELSE IF name # <<>> /\ link # <<>>
                  THEN <<[name |-> name, risk |-> str_strip(card.risk), type |-> card.type,
                          returns |-> CardReturns(card.returns), link |-> link]>> \o rest
                  ELSE rest

extract_fund_overview(n) ==
    LET page == ListingPage(n)
    IN  IF ~page.ok THEN <<>>
        ELSE IF page.cards = <<>> THEN <<>>
        ELSE CardsToFunds(page.cards)

----------------------------------------------------------------------------
(* main: discovery *)

\* main before its detail loop; the lists are created at lines 454-469
NoLists ==
    [all_names |-> <<>>, all_risks |-> <<>>, all_types |-> <<>>, all_links |-> <<>>,
     one_year_returns |-> <<>>, three_year_returns |-> <<>>, five_year_returns |-> <<>>,
     aum_list |-> <<>>, nav_list |-> <<>>, min_inv_list |-> <<>>, min_sip_list |-> <<>>,
     rating_list |-> <<>>, exp_ratio_list |-> <<>>, exit_load_list |-> <<>>,
     scheme_codes |-> <<>>, historical_navs |-> <<>>, top_holdings_list |-> <<>>,
     asset_allocations |-> <<>>, sector_allocations |-> <<>>, equity_aums |-> <<>>]

\* a frame: its column names and its rows
Frame(columns, rows) == [columns |-> columns, rows |-> rows]

\* preprocess_data is not running
InitPreprocessIdle ==
    /\ pp_pc = "idle"
    /\ loaded = <<>>
    /\ df = <<>>
    /\ nav_df = Frame({}, <<>>)
    /\ holdings_df = Frame({}, <<>>)
    /\ sector_df = Frame({}, <<>>)
    /\ warnings = {}
    /\ pp_raised = ""

InitDetail ==
    /\ fund_i = 0
    /\ fund_scheme_code = NaN
    /\ lists = NoLists
    /\ stat_columns = <<>>
    /\ exported = ""
    /\ uncaught = ""
    /\ stats_answers = <<>>
    /\ trace = <<>>

InitDiscovery ==
    /\ listing \in SeqsUpTo(PagePool, MaxPages)
    /\ clamps \in BOOLEAN
    /\ pc = "while"
    /\ page_no = 0
    /\ funds_data = <<>>
    /\ card_i = 0
    /\ all_funds = <<>>
    /\ seen = {}
    /\ fetched = {}
    /\ pending_delay = FALSE
    /\ fn_call = NoCall
    /\ fn_ret = NoCall
    /\ InitDetail
    /\ InitPreprocessIdle

\* Mutant of FetchListingPage: an empty page does not break out of the loop.
FetchListingPage_ContinueOnEmpty ==
    /\ pc = "while"
    /\ Len(all_funds) < MAX_FUNDS
    /\ LET got == extract_fund_overview(page_no)
       IN  /\ funds_data' = got
           /\ pc' = IF got = <<>> THEN "advance" ELSE "cards"
    /\ fetched' = fetched \cup {page_no}
    /\ pending_delay' = TRUE
    /\ card_i' = 1
    /\ UNCHANGED <<listing, clamps, page_no, all_funds, seen>>
    /\ UNCHANGED <<fvars, mvars, pvars>>

\* while len(all_funds) < MAX_FUNDS: funds_data = extract_fund_overview(page_no);
\* if not funds_data: break
FetchListingPage ==
    /\ pc = "while"
    /\ Len(all_funds) < MAX_FUNDS
    /\ LET got == extract_fund_overview(page_no)
       IN  /\ funds_data' = got
           /\ pc' = IF got = <<>> THEN "discovered" ELSE "cards"
    /\ fetched' = fetched \cup {page_no}
    /\ pending_delay' = TRUE
    /\ card_i' = 1
    /\ UNCHANGED <<listing, clamps, page_no, all_funds, seen>>
    /\ UNCHANGED <<fvars, mvars, pvars>>

\* the while condition is false
ExitLoop ==
    /\ pc = "while"
    /\ ~(Len(all_funds) < MAX_FUNDS)
    /\ pc' = "discovered"
    /\ UNCHANGED <<listing, clamps, page_no, funds_data, card_i, all_funds, seen,
                   fetched, pending_delay>>
    /\ UNCHANGED <<fvars, mvars, pvars>>

\* Mutant of ExamineCard: no break when MAX_FUNDS is reached.
ExamineCard_NoBreak ==
    /\ pc = "cards"
    /\ card_i <= Len(funds_data)
    /\ LET fund == funds_data[card_i]
           key  == FundKey(fund)
           more == card_i < Len(funds_data)
       IN  /\ IF key \notin seen
              THEN /\ seen' = seen \cup {key}
                   /\ all_funds' = Append(all_funds, fund)
              ELSE UNCHANGED <<seen, all_funds>>
           /\ pc' = IF more THEN "cards" ELSE "advance"
           /\ card_i' = IF more THEN card_i + 1 ELSE card_i
    /\ UNCHANGED <<listing, clamps, page_no, funds_data, fetched, pending_delay>>
    /\ UNCHANGED <<fvars, mvars, pvars>>

\* one iteration of `for fund in funds_data`
ExamineCard ==
    /\ pc = "cards"
    /\ card_i <= Len(funds_data)
    /\ LET fund == funds_data[card_i]
           key  == FundKey(fund)
           more == card_i < Len(funds_data)
           full == Len(all_funds) + 1 >= MAX_FUNDS
       IN  IF key \notin seen
           THEN /\ seen' = seen \cup {key}
                /\ all_funds' = Append(all_funds, fund)
                /\ pc' = IF full \/ ~more THEN "advance" ELSE "cards"
                /\ card_i' = IF full \/ ~more THEN card_i ELSE card_i + 1
           ELSE /\ UNCHANGED <<seen, all_funds>>
                /\ pc' = IF more THEN "cards" ELSE "advance"
                /\ card_i' = IF more THEN card_i + 1 ELSE card_i
    /\ UNCHANGED <<listing, clamps, page_no, funds_data, fetched, pending_delay>>
    /\ UNCHANGED <<fvars, mvars, pvars>>

\* Mutant of AdvancePage: page_no is not incremented.
AdvancePage_NoIncrement ==
    /\ pc = "advance"
    /\ pending_delay' = FALSE
    /\ pc' = "while"
    /\ UNCHANGED <<listing, clamps, page_no, funds_data, card_i, all_funds, seen, fetched>>
    /\ UNCHANGED <<fvars, mvars, pvars>>

\* page_no += 1; time.sleep(DELAY_SECONDS)
AdvancePage ==
    /\ pc = "advance"
    /\ page_no' = IF page_no < MaxPageNo THEN page_no + 1 ELSE page_no
    /\ pending_delay' = FALSE
    /\ pc' = "while"
    /\ UNCHANGED <<listing, clamps, funds_data, card_i, all_funds, seen, fetched>>
    /\ UNCHANGED <<fvars, mvars, pvars>>

NextDiscovery ==
    \/ FetchListingPage
    \/ ExitLoop
    \/ ExamineCard
    \/ AdvancePage

SpecDiscovery == InitDiscovery /\ [][NextDiscovery]_vars

\* main is one sequential thread: whenever it has a next step it takes it.
SpecDiscoveryFair == SpecDiscovery /\ WF_vars(NextDiscovery)

\* the discovery loop of main has been left
DiscoveryDone == pc \notin {"while", "cards", "advance"}

----------------------------------------------------------------------------
(* Single calls of the per-fund functions, on every answer of the network *)

\* Most attempts a single call of extract_portfolio_stats is given.
MaxRetries == 3

Code111 == Str(<<"1","1","1">>)
Code222 == Str(<<"2","2","2">>)

\* Pools are sequences, their values being of several shapes.
\* a scheme code: np.nan (extract_scheme_code found none), None, '', or digits
SchemeCodePool == <<NaN, None, Str(<<>>), Code111, Code222>>

Exc(e)  == [t |-> "exc", exc |-> e]
Json(d) == [t |-> "json", data |-> d]

\* one entry [timestamp_ms, nav] of the graph API
NavEntry(ts, nav) == List(<<ts, nav>>)
NavPayload(entries) == Json(Dict([folio |-> Dict([data |-> entries])]))

NavEmptyList    == NavPayload(List(<<>>))
NavDataNull     == NavPayload(None)
NavDataNumber   == NavPayload(IntV(5))
NavNoFolio      == Json(Dict([status |-> Str(<<"o","k">>)]))
NavFolioNull    == Json(Dict([folio |-> None]))
NavTopLevelList == Json(List(<<>>))
NavGood ==
    NavPayload(List(<<NavEntry(IntV(86400000), Float(10525)), NavEntry(IntV(0), IntV(100))>>))
NavMixed ==
    NavPayload(List(<<NavEntry(IntV(0), Str(<<"a","b","c">>)),
                      NavEntry(IntV(172800000), Str(<<"1","2",".","5">>)),
                      NavEntry(IntV(0), None),
                      NavEntry(Str(<<"0">>), Float(100)),
                      List(<<IntV(0), Float(100), Float(100)>>),
                      Str(<<"x">>)>>))
NavAllMalformed ==
    NavPayload(List(<<List(<<IntV(0)>>), NavEntry(IntV(0), Str(<<"x">>))>>))

PrimaryPool ==
    <<Exc("ConnectionError"), Exc("Timeout"), Exc("RequestsHTTPError"), Exc("JSONDecodeError"),
      NavEmptyList, NavDataNull, NavDataNumber, NavNoFolio, NavFolioNull,
      NavTopLevelList, NavGood, NavMixed, NavAllMalformed>>

FeedRow(code, date, nav) == [code |-> code, date |-> date, nav |-> nav]
FeedRows(rows) == [t |-> "rows", rows |-> rows]

FeedGood ==
    FeedRows(<<FeedRow(Str(<<"O","p","e","n"," ","E","n","d","e","d"," ","S","c","h","e","m","e","s">>), <<>>, NaN),
               FeedRow(IntV(111), <<"0","5","-","M","a","y","-","2","0","2","4">>, Float(10525)),
               FeedRow(IntV(111), <<"0","1","-","J","a","n","-","2","0","2","0">>, Float(9000)),
               FeedRow(IntV(222), <<"0","6","-","J","u","n","-","2","0","2","4">>, Str(<<"9","9",".","5">>)),
               FeedRow(IntV(111), <<"5","-","M","a","y","-","2","0","2","5">>, NaN)>>)
FeedBadDate ==
    FeedRows(<<FeedRow(IntV(111), <<"2","0","2","4","/","0","5","/","0","5">>, Float(10525))>>)
FeedBadNav ==
    FeedRows(<<FeedRow(IntV(111), <<"0","5","-","M","a","y","-","2","0","2","4">>, Str(<<"N",".","A",".">>))>>)
FeedNoRows == FeedRows(<<>>)

\* what downloading and parsing the feed can raise, urllib's errors of the
\* download and pandas' errors of the parse, or the rows read
FeedPool ==
    <<Exc("URLError"), Exc("UrllibHTTPError"), Exc("EmptyDataError"), Exc("ParserError"),
      FeedGood, FeedBadDate, FeedBadNav, FeedNoRows>>

Table(has_tbody, rows) == [present |-> TRUE, has_tbody |-> has_tbody, rows |-> rows]
NoTable == [present |-> FALSE, has_tbody |-> FALSE, rows |-> <<>>]
Holding(company, pct) == <<company, <<"T","e","c","h">>, <<"E","q","u","i","t","y">>, pct>>

SevenRows ==
    <<Holding(<<" ","H","1"," ">>, <<"9",".","5","%">>),
      Holding(<<"H","2">>, <<" ","8","%"," ">>),
      <<<<"H","3">>, <<"7","%">>>>,
      Holding(<<"H","4">>, <<"-">>),
      Holding(<<"H","5">>, <<"5",".","2","5","%">>),
      Holding(<<"H","6">>, <<"4","%">>),
      Holding(<<"H","7">>, <<"3","%">>)>>

PageNone      == [ok |-> FALSE, table |-> NoTable]
PageNoTable   == [ok |-> TRUE, table |-> NoTable]
PageTbody     == [ok |-> TRUE, table |-> Table(TRUE, SevenRows)]
PageNoTbody   == [ok |-> TRUE, table |-> Table(FALSE, <<<<>>>> \o SevenRows)]
PageShort     == [ok |-> TRUE, table |-> Table(TRUE, SubSeq(SevenRows, 1, 2))]

HoldingsPagePool == <<PageNone, PageNoTable, PageTbody, PageNoTbody, PageShort>>

FundLinkPool == {<<>>, Abs(<<"a">>)}

\* The fund pages the site can serve
Element(previous, text) == [previous |-> previous, text |-> text]

Doc(elements, min_elements, ratings, paragraphs, scripts, table) ==
    [ok |-> TRUE, elements |-> elements, min_elements |-> min_elements,
     ratings |-> ratings, paragraphs |-> paragraphs, scripts |-> scripts, table |-> table]

\* a page with every labelled field, a scheme code and a holdings table
DocFull ==
    Doc(<<Element(<<"F","u","n","d"," ","s","i","z","e">>, <<"₹","1",",","2","3","4",".","5","C","r">>),
          Element(<<"N","A","V",":"," ","0","2"," ","M","a","y">>, <<" ","₹","1","0","5",".","2","5"," ">>)>>,
        <<Element(<<"M","i","n","."," ","f","o","r"," ","1","s","t"," ","i","n","v","e","s","t","m","e","n","t">>, <<"₹","5","0","0">>),
          Element(<<"M","i","n","."," ","f","o","r"," ","S","I","P">>, <<"₹","1","0","0">>)>>,
        <<<<"4">>>>,
        <<<<"E","x","i","t"," ","l","o","a","d"," ","o","f"," ","1",".","0","%"," ","i","f"," ","r","e","d","e","e","m","e","d"," ","w","i","t","h","i","n"," ","1"," ","y","e","a","r">>,
          <<"E","x","p","e","n","s","e"," ","r","a","t","i","o",":"," ","0",".","7","5","%">>>>,
        <<<<"w","i","n","d","o","w",".","x"," ","="," ","1">>, <<"{","\"","s","c","h","e","m","e","_","c","o","d","e","\"",":","\"","1","1","1","\"",",","\"","x","\"",":","1","}">>>>,
        Table(TRUE, SevenRows))

\* a page with none of them
DocBare == Doc(<<>>, <<>>, <<>>, <<>>, <<>>, NoTable)

\* a page with the SIP minimum and without the label of the first investment
DocSipOnly ==
    [DocFull EXCEPT !.min_elements =
        <<Element(<<"M","i","n","."," ","f","o","r"," ","S","I","P">>, <<"₹","1","0","0">>)>>]

\* a page whose fund size and first-investment texts are no numbers, whose rating
\* is 'NA' and whose exit load states a whole percentage
DocUnparsable ==
    [DocFull EXCEPT
        !.elements = <<Element(<<"F","u","n","d"," ","s","i","z","e">>, <<"-","-">>),
                       Element(<<"N","A","V">>, <<"₹","1","0","5",".","2","5">>)>>,
        !.min_elements =
            <<Element(<<"M","i","n","."," ","f","o","r"," ","1","s","t"," ","i","n","v","e","s","t","m","e","n","t">>, <<"N","A">>),
              Element(<<"M","i","n","."," ","f","o","r"," ","S","I","P">>, <<"₹","1","0","0">>)>>,
        !.ratings = <<<<"N","A">>>>,
        !.paragraphs = <<<<"E","x","i","t"," ","l","o","a","d"," ","o","f"," ","1","%">>>>]

\* pages that differ in their exit load paragraph
DocNoExitLoad ==
    [DocFull EXCEPT !.paragraphs = <<<<"E","x","i","t"," ","l","o","a","d",":"," ","N","o"," ","e","x","i","t"," ","l","o","a","d">>>>]
DocExitLoadZero ==
    [DocFull EXCEPT !.paragraphs = <<<<"E","x","i","t"," ","l","o","a","d"," ","o","f"," ","0","%">>>>]
DocExitLoadHalf ==
    [DocFull EXCEPT !.paragraphs = <<<<"E","x","i","t"," ","l","o","a","d"," ","o","f"," ","0",".","5","0","%">>>>]
DocExitLoadQuarter ==
    [DocFull EXCEPT !.paragraphs = <<<<"E","x","i","t"," ","l","o","a","d"," ","o","f"," ","1",".","2","5","%">>>>]

DetailPagePool ==
    <<PageNone, DocFull, DocBare, DocSipOnly, DocUnparsable, DocNoExitLoad, DocExitLoadZero,
      DocExitLoadHalf, DocExitLoadQuarter>>

OrderedDict(keys, f) == [t |-> "dict", v |-> f, order |-> keys]

SixSectors ==
    OrderedDict(<<"Energy", "Banks", "IT", "Pharma", "Auto", "FMCG">>,
                [Energy |-> Float(1000), Banks |-> Float(3000), IT |-> Float(2000),
                 Pharma |-> Float(1000), Auto |-> IntV(5), FMCG |-> Str(<<"2",".","5">>)])

StatsFull ==
    Json(Dict([pe |-> Float(2050), pb |-> Float(310),
               debt_per |-> IntV(40), equity_per |-> IntV(40),
               average_maturity |-> Float(350), yield_to_maturity |-> Float(720),
               asset_allocation |-> Dict([equity |-> Float(6000), debt |-> IntV(30),
                                          cash |-> Float(1000)]),
               aum |-> Float(100000),
               equity_sector_per |-> SixSectors]))
StatsSparse ==
    Json(Dict([pe |-> Float(1500), equity_per |-> Float(9550),
               asset_allocation |-> Dict([equity |-> Float(9550)])]))
StatsNullFields ==
    Json(Dict([pe |-> None, debt_per |-> None, equity_per |-> None, aum |-> Float(5000)]))
StatsNullAllocation == Json(Dict([pe |-> Float(1500), asset_allocation |-> None]))
StatsNullAum        == Json(Dict([pe |-> Float(1500), aum |-> None]))
StatsBadNumber ==
    Json(Dict([asset_allocation |-> Dict([equity |-> Str(<<"n","/","a">>)])]))
StatsTopLevelList   == Json(List(<<>>))
\* debt_per and equity_per that do not divide evenly, a sector map of two
StatsThirds ==
    Json(Dict([debt_per |-> IntV(1), equity_per |-> IntV(2),
               average_maturity |-> None, aum |-> Float(5000),
               equity_sector_per |->
                   OrderedDict(<<"IT", "Banks">>, [IT |-> IntV(20), Banks |-> Float(6000)])]))
\* debt_per + equity_per below zero
StatsNegativeSum ==
    Json(Dict([debt_per |-> IntV(-10), equity_per |-> Float(500),
               asset_allocation |-> Dict([debt |-> Float(10000)])]))

StatsResponsePool ==
    <<Exc("Timeout"), Exc("RequestsHTTPError"), Exc("JSONDecodeError"),
      StatsFull, StatsSparse, StatsNullFields, StatsNullAllocation, StatsNullAum,
      StatsBadNumber, StatsTopLevelList, StatsThirds, StatsNegativeSum>>

FundTypePool == {"Equity", "Hybrid", "Commodities"}

InitCalls ==
    /\ listing = <<>>
    /\ clamps = FALSE
    /\ pc = "while"
    /\ page_no = 0
    /\ funds_data = <<>>
    /\ card_i = 0
    /\ all_funds = <<>>
    /\ seen = {}
    /\ fetched = {}
    /\ pending_delay = FALSE
    /\ fn_call = NoCall
    /\ fn_ret = NoCall
    /\ InitDetail
    /\ InitPreprocessIdle

CallFetchAmfiNav ==
    /\ fn_call = NoCall
    /\ \E c \in 1..Len(SchemeCodePool), f \in 1..Len(FeedPool) :
        LET code == SchemeCodePool[c]
            feed == FeedPool[f]
        IN  /\ fn_call' = [fn |-> "fetch_amfi_nav", scheme_code |-> code, feed |-> feed]
            /\ fn_ret' = fetch_amfi_nav(code, DefaultStartDate, DefaultEndDate, feed)
    /\ UNCHANGED <<dvars, mvars, pvars>>

CallExtractHistoricalNav ==
    /\ fn_call = NoCall
    /\ \E c \in 1..Len(SchemeCodePool), p \in 1..Len(PrimaryPool), f \in 1..Len(FeedPool) :
        LET code    == SchemeCodePool[c]
            primary == PrimaryPool[p]
            feed    == FeedPool[f]
        IN  /\ fn_call' = [fn |-> "extract_historical_nav", scheme_code |-> code,
                           primary |-> primary, feed |-> feed]
            /\ fn_ret' = extract_historical_nav(code, 12, primary, feed)
    /\ UNCHANGED <<dvars, mvars, pvars>>

CallExtractTopHoldings ==
    /\ fn_call = NoCall
    /\ \E c \in 1..Len(SchemeCodePool), link \in FundLinkPool,
          p \in 1..Len(HoldingsPagePool) :
        LET code == SchemeCodePool[c]
            page == HoldingsPagePool[p]
        IN  /\ fn_call' = [fn |-> "extract_top_holdings", scheme_code |-> code,
                           fund_link |-> link, page |-> page]
            /\ fn_ret' = extract_top_holdings(code, link, page)
    /\ UNCHANGED <<dvars, mvars, pvars>>

CallExtractPortfolioStats ==
    /\ fn_call = NoCall
    /\ \E c \in 1..Len(SchemeCodePool), fund_type \in FundTypePool, retries \in 0..MaxRetries :
        \E picks \in [1..retries -> 1..Len(StatsResponsePool)] :
            LET code      == SchemeCodePool[c]
                responses == [k \in 1..retries |-> StatsResponsePool[picks[k]]]
            IN  /\ fn_call' = [fn |-> "extract_portfolio_stats", scheme_code |-> code,
                               fund_type |-> fund_type, retries |-> retries,
                               retry_delay |-> DefaultRetryDelay, responses |-> responses]
                /\ fn_ret' = extract_portfolio_stats(code, fund_type, retries,
                                                     DefaultRetryDelay, responses)
    /\ UNCHANGED <<dvars, mvars, pvars>>

CallExtractDetailedFundData ==
    /\ fn_call = NoCall
    /\ \E url \in FundLinkPool \ {<<>>}, p \in 1..Len(DetailPagePool) :
        LET page == DetailPagePool[p]
        IN  /\ fn_call' = [fn |-> "extract_detailed_fund_data", url |-> url, page |-> page]
            /\ fn_ret' = extract_detailed_fund_data(url, page)
    /\ UNCHANGED <<dvars, mvars, pvars>>

NextCalls ==
    \/ CallExtractDetailedFundData
    \/ CallFetchAmfiNav
    \/ CallExtractHistoricalNav
    \/ CallExtractTopHoldings
    \/ CallExtractPortfolioStats

SpecCalls == InitCalls /\ [][NextCalls]_vars

----------------------------------------------------------------------------
(* process_returns *)

RECURSIVE str_rstrip(_, _)
\* str.rstrip(c) for one character c
str_rstrip(s, c) ==
    IF s # <<>> /\ Last(s) = c THEN str_rstrip(SubSeq(s, 1, Len(s) - 1), c) ELSE s

\* one cell: np.nan for 'NA', float(x.rstrip('%')) when it ends with '%', else the text
ReturnValue(text) ==
    IF text = NA THEN [ok |-> TRUE, v |-> NaN]
    ELSE IF EndsWith(text, <<"%">>)
         THEN The({ IF f.ok THEN [ok |-> TRUE, v |-> Float(f.v)]
                    ELSE [ok |-> FALSE, exc |-> "ValueError"]
                    : f \in {float_of_str(str_rstrip(text, "%"))} })
         ELSE [ok |-> TRUE, v |-> Str(text)]

\* column k of the converted cells, padded with np.nan to expected_count
ReturnColumn(cells, k, expected_count) ==
    [i \in 1..(IF Len(cells) < expected_count THEN expected_count ELSE Len(cells)) |->
        IF i <= Len(cells) THEN cells[i][k].v ELSE NaN]

process_returns(returns_list, expected_count) ==
    The({ IF \E i \in 1..Len(cells) : \E k \in 1..3 : ~cells[i][k].ok
          THEN Raised("ValueError", <<>>)
          ELSE Returned(<<ReturnColumn(cells, 1, expected_count),
                          ReturnColumn(cells, 2, expected_count),
                          ReturnColumn(cells, 3, expected_count)>>, <<>>)
          : cells \in {[i \in 1..Len(returns_list) |->
                           [k \in 1..3 |-> ReturnValue(returns_list[i][k])]]} })

----------------------------------------------------------------------------
(* main: the detail loop, the analysis dictionary and the export *)

\* What the fund page answers to one fetch, for the detail fields and the scheme code.
MainPagePool == <<PageNone, DocFull>>

\* What the fund page answers to the fetch of extract_top_holdings.
MainHoldingsPool == <<PageNone, PageTbody>>

\* What the graph API and the AMFI feed answer for one fund.
MainNavPool ==
    <<[primary |-> NavGood,        feed |-> FeedGood],
      [primary |-> Exc("Timeout"), feed |-> FeedNoRows],
      [primary |-> Exc("Timeout"), feed |-> Exc("URLError")],
      [primary |-> NavFolioNull,   feed |-> FeedGood]>>

\* What the stats API answers to the attempts of one call, for one fund.
MainStatsPool ==
    <<<<StatsFull, StatsFull, StatsFull>>,
      <<Exc("Timeout"), Exc("Timeout"), Exc("Timeout")>>,
      <<StatsNullAum, StatsFull, StatsFull>>>>

\* The listings main is run on.
MainListingPool == <<<<PageAQC>>, <<PageAAB>>, <<PageSkipped>>>>

Init ==
    /\ \E l \in 1..Len(MainListingPool) : listing = MainListingPool[l]
    /\ clamps = FALSE
    /\ pc = "while"
    /\ page_no = 0
    /\ funds_data = <<>>
    /\ card_i = 0
    /\ all_funds = <<>>
    /\ seen = {}
    /\ fetched = {}
    /\ pending_delay = FALSE
    /\ fn_call = NoCall
    /\ fn_ret = NoCall
    /\ InitDetail
    /\ InitPreprocessIdle

\* a call main makes for fund i, with the requests and sleeps of the call
Called(fn, i, events) == <<[ev |-> "CALL", fn |-> fn, fund |-> i]>> \o events

\* an exception leaves main: nothing catches it
Abort(exc) ==
    /\ pc' = "crashed"
    /\ uncaught' = exc

\* lines 451-469: the lists of the summaries, process_returns, the empty lists
StartDetailLoop ==
    /\ pc = "discovered"
    /\ \E r \in {process_returns([i \in 1..Len(all_funds) |-> all_funds[i].returns],
                                 Len(all_funds))} :
         IF r.kind = "return"
         THEN /\ lists' = [NoLists EXCEPT
                    !.all_names = [i \in 1..Len(all_funds) |-> all_funds[i].name],
                    !.all_risks = [i \in 1..Len(all_funds) |-> all_funds[i].risk],
                    !.all_types = [i \in 1..Len(all_funds) |-> all_funds[i].type],
                    !.all_links = [i \in 1..Len(all_funds) |->
                                      str_split(str_strip(all_funds[i].link), <<"?">>)[1]],
                    !.one_year_returns = r.value[1],
                    !.three_year_returns = r.value[2],
                    !.five_year_returns = r.value[3]]
              /\ pc' = IF all_funds = <<>> THEN "analysis" ELSE "detail"
              /\ fund_i' = IF all_funds = <<>> THEN 0 ELSE 1
              /\ uncaught' = uncaught
         ELSE /\ Abort(r.exc)
              /\ UNCHANGED <<lists, fund_i>>
    /\ UNCHANGED <<lvars, fvars, pvars, fund_scheme_code, stat_columns, exported, stats_answers,
                   trace>>


\* lines 472-480: extract_detailed_fund_data(link) and its seven appends
DetailData ==
    /\ pc = "detail"
    /\ \E p \in 1..Len(MainPagePool) :
       \E r \in {extract_detailed_fund_data(all_funds[fund_i].link, MainPagePool[p])} :
         /\ lists' = [lists EXCEPT !.aum_list       = Append(@, r.value[1]),
                                   !.nav_list       = Append(@, r.value[2]),
                                   !.min_inv_list   = Append(@, r.value[3]),
                                   !.min_sip_list   = Append(@, r.value[4]),
                                   !.rating_list    = Append(@, r.value[5]),
                                   !.exp_ratio_list = Append(@, r.value[6]),
                                   !.exit_load_list = Append(@, r.value[7])]
         /\ trace' = trace \o Called("extract_detailed_fund_data", fund_i, r.events)
    /\ pc' = "code"
    /\ UNCHANGED <<lvars, fvars, pvars, fund_i, fund_scheme_code, stat_columns, exported, uncaught,
                   stats_answers>>

\* lines 481-482: scheme_code = extract_scheme_code(link)
SchemeCode ==
    /\ pc = "code"
    /\ \E p \in 1..Len(MainPagePool) :
       \E r \in {extract_scheme_code(all_funds[fund_i].link, MainPagePool[p])} :
         /\ fund_scheme_code' = r.value
         /\ lists' = [lists EXCEPT !.scheme_codes = Append(@, r.value)]
         /\ trace' = trace \o Called("extract_scheme_code", fund_i, r.events)
    /\ pc' = "nav"
    /\ UNCHANGED <<lvars, fvars, pvars, fund_i, stat_columns, exported, uncaught, stats_answers>>

\* lines 484-485: nav_data = extract_historical_nav(scheme_code, months=12)
HistoricalNav ==
    /\ pc = "nav"
    /\ \E n \in 1..Len(MainNavPool) :
       \E r \in {extract_historical_nav(fund_scheme_code, 12, MainNavPool[n].primary,
                                        MainNavPool[n].feed)} :
         /\ trace' = trace \o Called("extract_historical_nav", fund_i, r.events)
         /\ IF r.kind = "return"
            THEN /\ lists' = [lists EXCEPT !.historical_navs = Append(@, r.value)]
                 /\ pc' = "holdings"
                 /\ uncaught' = uncaught
            ELSE /\ Abort(r.exc)
                 /\ lists' = lists
    /\ UNCHANGED <<lvars, fvars, pvars, fund_i, fund_scheme_code, stat_columns, exported,
                   stats_answers>>

\* Mutant of TopHoldings: a fund without holdings gets no entry in top_holdings_list.
TopHoldings_SkipsEmpty ==
    /\ pc = "holdings"
    /\ \E p \in 1..Len(MainHoldingsPool) :
       \E r \in {extract_top_holdings(fund_scheme_code, all_funds[fund_i].link,
                                      MainHoldingsPool[p])} :
         /\ lists' = IF r.value = <<>> THEN lists
                     ELSE [lists EXCEPT !.top_holdings_list = Append(@, r.value)]
         /\ trace' = trace \o Called("extract_top_holdings", fund_i, r.events)
    /\ pc' = "stats"
    /\ UNCHANGED <<lvars, fvars, pvars, fund_i, fund_scheme_code, stat_columns, exported, uncaught,
                   stats_answers>>

\* lines 487-488: top_holdings = extract_top_holdings(scheme_code, fund_link=link)
TopHoldings ==
    /\ pc = "holdings"
    /\ \E p \in 1..Len(MainHoldingsPool) :
       \E r \in {extract_top_holdings(fund_scheme_code, all_funds[fund_i].link,
                                      MainHoldingsPool[p])} :
         /\ lists' = [lists EXCEPT !.top_holdings_list = Append(@, r.value)]
         /\ trace' = trace \o Called("extract_top_holdings", fund_i, r.events)
    /\ pc' = "stats"
    /\ UNCHANGED <<lvars, fvars, pvars, fund_i, fund_scheme_code, stat_columns, exported, uncaught,
                   stats_answers>>

\* lines 491-494: stats = extract_portfolio_stats(scheme_code, fund['type']) and the
\* three appends. The answers of the stats API for this fund are fixed here; with no
\* scheme code no request is made, so there are none.
PortfolioStats ==
    /\ pc = "stats"
    /\ \E a \in 1..Len(MainStatsPool) :
       \E answers \in {IF SchemeCodeMissing(fund_scheme_code) THEN <<>>
                       ELSE MainStatsPool[a]} :
       \E r \in {extract_portfolio_stats(fund_scheme_code, all_funds[fund_i].type,
                                         DefaultRetries, DefaultRetryDelay,
                                         MainStatsPool[a])} :
         /\ stats_answers' = Append(stats_answers, answers)
         /\ trace' = trace \o Called("extract_portfolio_stats", fund_i, r.events)
         /\ IF r.kind = "return"
            THEN /\ lists' = [lists EXCEPT
                       !.asset_allocations  = Append(@, r.value.asset_allocation),
                       !.sector_allocations = Append(@, r.value.sector_allocation),
                       !.equity_aums        = Append(@, r.value.equity_aum)]
                 /\ pc' = "sleep"
                 /\ uncaught' = uncaught
            ELSE /\ Abort(r.exc)
                 /\ lists' = lists
    /\ UNCHANGED <<lvars, fvars, pvars, fund_i, fund_scheme_code, stat_columns, exported>>

\* line 496: time.sleep(DELAY_SECONDS), then the next fund or the end of the loop
LoopSleep ==
    /\ pc = "sleep"
    /\ trace' = Append(trace, Sleep(DELAY_SECONDS))
    /\ IF fund_i < Len(all_funds)
       THEN /\ fund_i' = fund_i + 1
            /\ pc' = "detail"
       ELSE /\ fund_i' = fund_i
            /\ pc' = "analysis"
    /\ UNCHANGED <<lvars, fvars, pvars, fund_scheme_code, lists, stat_columns, exported, uncaught,
                   stats_answers>>

\* the keys of lines 506-511, in the order the dictionary display evaluates them
StatKeys == <<"pe", "pb", "debt_per", "equity_per", "average_maturity", "yield_to_maturity">>

RECURSIVE StatsOfFunds(_, _, _, _)
\* [extract_portfolio_stats(code, fund['type']) for code, fund in zip(scheme_codes, all_funds)]
StatsOfFunds(codes, funds, answers, k) ==
    IF k > Len(codes) \/ k > Len(funds) THEN Returned(<<>>, <<>>)
    ELSE The({ IF r.kind = "raise"
               THEN Raised(r.exc, Called("extract_portfolio_stats", k, r.events))
               ELSE The({ IF rest.kind = "raise"
                          THEN Raised(rest.exc,
                                      Called("extract_portfolio_stats", k, r.events)
                                          \o rest.events)
                          ELSE Returned(<<r.value>> \o rest.value,
                                        Called("extract_portfolio_stats", k, r.events)
                                            \o rest.events)
                          : rest \in {StatsOfFunds(codes, funds, answers, k + 1)} })
               : r \in {extract_portfolio_stats(codes[k], funds[k].type, DefaultRetries,
                                                DefaultRetryDelay, answers[k])} })

\* lines 506-511, one key of the dictionary display: every fund's stats are fetched
\* again and the key's value is taken from each
AnalysisColumn ==
    /\ pc = "analysis"
    /\ Len(stat_columns) < Len(StatKeys)
    /\ \E key \in {StatKeys[Len(stat_columns) + 1]} :
       \E r \in {StatsOfFunds(lists.scheme_codes, all_funds, stats_answers, 1)} :
         /\ trace' = trace \o r.events
         /\ IF r.kind = "return"
            THEN /\ stat_columns' = Append(stat_columns,
                                           [i \in 1..Len(r.value) |-> r.value[i][key]])
                 /\ pc' = "analysis"
                 /\ uncaught' = uncaught
            ELSE /\ Abort(r.exc)
                 /\ stat_columns' = stat_columns
    /\ UNCHANGED <<lvars, fvars, pvars, fund_i, fund_scheme_code, lists, exported, stats_answers>>

\* lines 526-536: pd.DataFrame(analysis).to_excel(...); a failure is logged, main returns
Export ==
    /\ pc = "analysis"
    /\ Len(stat_columns) = Len(StatKeys)
    /\ exported' \in {"saved", "failed"}
    /\ pc' = "done"
    /\ UNCHANGED <<lvars, fvars, pvars, fund_i, fund_scheme_code, lists, stat_columns, uncaught,
                   stats_answers, trace>>

Next ==
    \/ FetchListingPage
    \/ ExitLoop
    \/ ExamineCard
    \/ AdvancePage
    \/ StartDetailLoop
    \/ DetailData
    \/ SchemeCode
    \/ HistoricalNav
    \/ TopHoldings
    \/ PortfolioStats
    \/ LoopSleep
    \/ AnalysisColumn
    \/ Export

Spec == Init /\ [][Next]_vars

----------------------------------------------------------------------------
(* datapreprocess.py: the cells of a table *)

\* the marker 'N/A'
NotAvailable == Str(<<"N","/","A">>)

\* a replacement that fills the missing cell with 0
ReplaceMissing_Zero(x) ==
    IF isna(x) \/ (x.t = "str" /\ x.v = <<>>) THEN IntV(0) ELSE x

\* Series.replace([np.nan, '', None], 'N/A') of one cell
ReplaceMissing(x) ==
    IF isna(x) \/ (x.t = "str" /\ x.v = <<>>) THEN NotAvailable ELSE x

\* pd.to_numeric(errors='coerce') of one cell: a number, or nan for what is none
NumericCell(x) ==
    CASE IsNumber(x)  -> x
      [] x.t = "str"  -> The({ IF f.ok THEN Float(f.v) ELSE NaN : f \in {float_of_str(x.v)} })
      [] OTHER        -> NaN

\* a whole number, as an int
Integral(x) == IsNumber(x) /\ Hundredths(x) % 100 = 0

\* pd.to_numeric(column, errors='coerce', downcast=...).fillna('N/A'): the column is
\* int64 when every cell is an int, or with downcast='integer' a whole number, and
\* float64 otherwise; nan cells become 'N/A'
to_numeric_fillna(cells, downcast) ==
    The({ [i \in 1..Len(cells) |->
              IF num[i].t = "nan" THEN NotAvailable
              ELSE IF \A j \in 1..Len(num) :
                         num[j].t = "int" \/ (downcast /\ Integral(num[j]))
                   THEN IntV(Hundredths(num[i]) \div 100)
                   ELSE Float(Hundredths(num[i]))]
          : num \in {[i \in 1..Len(cells) |-> NumericCell(cells[i])]} })

\* Series.astype(str) of one cell of a string column
AsStr(x) ==
    CASE x.t = "str"  -> x
      [] x.t = "nan"  -> Str(<<"n","a","n">>)
      [] x.t = "none" -> Str(<<"N","o","n","e">>)

\* df[col]
Column(rows, col) == [i \in 1..Len(rows) |-> rows[i][col]]

Equity == Str(<<"E","q","u","i","t","y">>)

\* handle_missing_values without its statement for the Equity rows
handle_missing_values_NoEquityRule(rows) ==
    [i \in 1..Len(rows) |->
        [c \in DOMAIN rows[i] |->
            IF c \in {"exit_load", "rating", "average_maturity", "yield_to_maturity"}
            THEN ReplaceMissing(rows[i][c])
            ELSE rows[i][c]]]

\* columns_to_clean get 'N/A' for nan, '' and None; then the rows of type 'Equity'
\* get 'N/A' for average_maturity and yield_to_maturity
handle_missing_values(rows) ==
    [i \in 1..Len(rows) |->
        [c \in DOMAIN rows[i] |->
            IF c \in {"average_maturity", "yield_to_maturity"} /\ rows[i].type = Equity
            THEN NotAvailable
            ELSE IF c \in {"exit_load", "rating", "average_maturity", "yield_to_maturity"}
            THEN ReplaceMissing(rows[i][c])
            ELSE rows[i][c]]]

\* numeric_cols of standardize_data_types
NumericCols ==
    {"aum", "nav", "minimum_investment", "minimum_sip_investment", "pe", "pb", "debt_per",
     "equity_per", "one_year_return", "three_year_return", "five_year_return", "equity_aum"}

standardize_data_types(rows) ==
    [i \in 1..Len(rows) |->
        [c \in DOMAIN rows[i] |->
            IF c \in NumericCols \cup {"exit_load"}
            THEN to_numeric_fillna(Column(rows, c), FALSE)[i]
            ELSE IF c = "rating" THEN to_numeric_fillna(Column(rows, c), TRUE)[i]
            ELSE IF c \in {"name", "risk", "type", "link"} THEN AsStr(rows[i][c])
            ELSE rows[i][c]]]

\* isinstance(x, (int, float)) and x < bound (np.nan is a float that compares false)
NumberBelow(x, bound) == IsNumber(x) /\ Hundredths(x) < bound

\* the rows whose cells a and b are both an int or a float
BothNumbers(rows, a, b) ==
    {i \in 1..Len(rows) : rows[i][a].t \in {"int", "float", "nan"}
                          /\ rows[i][b].t \in {"int", "float", "nan"}}

\* the warnings validate_data logs for the table
ValidationWarnings(rows) ==
    {<<"negative", c>> : c \in {c \in {"aum", "nav", "minimum_investment",
                                        "minimum_sip_investment", "equity_aum"} :
                                    \E i \in 1..Len(rows) : NumberBelow(rows[i][c], 0)}}
    \cup {<<"equity_aum", "exceeds aum">> : i \in {i \in BothNumbers(rows, "equity_aum", "aum") :
              /\ IsNumber(rows[i].equity_aum) /\ IsNumber(rows[i].aum)
              /\ Hundredths(rows[i].equity_aum) > Hundredths(rows[i].aum)}}
    \cup {<<"unrealistic", c>> : c \in {c \in {"one_year_return", "three_year_return",
                                                "five_year_return"} :
              \E i \in 1..Len(rows) :
                  IsNumber(rows[i][c]) /\ (Hundredths(rows[i][c]) > 10000
                                           \/ Hundredths(rows[i][c]) < -10000)}}
    \cup {<<"inconsistent", "debt_per + equity_per">> :
              i \in {i \in BothNumbers(rows, "debt_per", "equity_per") :
                  /\ IsNumber(rows[i].debt_per) /\ IsNumber(rows[i].equity_per)
                  /\ \/ Hundredths(rows[i].debt_per) + Hundredths(rows[i].equity_per) < 9500
                     \/ Hundredths(rows[i].debt_per) + Hundredths(rows[i].equity_per) > 10500}}
    \cup {<<"duplicate", "name">> : i \in {i \in 1..Len(rows) :
              \E j \in 1..(i - 1) : rows[j].name = rows[i].name}}

\* validate_data that blanks the aum it warns about
validate_data_BlanksNegative(rows) ==
    [df |-> [i \in 1..Len(rows) |->
                [rows[i] EXCEPT !.aum = IF NumberBelow(@, 0) THEN NaN ELSE @]],
     warnings |-> ValidationWarnings(rows)]

\* validate_data(df): the table it returns and the warnings it logs
validate_data(rows) == [df |-> rows, warnings |-> ValidationWarnings(rows)]

----------------------------------------------------------------------------
(* datapreprocess.py: the nested columns *)

\* the characters of the fund names, in the order of their code points
CharRank(c) == CHOOSE k \in 1..6 : <<" ", "A", "B", "C", "a", "b">>[k] = c

RECURSIVE TextLess(_, _)
\* a < b for two str
TextLess(a, b) ==
    IF b = <<>> THEN FALSE
    ELSE IF a = <<>> THEN TRUE
    ELSE IF a[1] = b[1] THEN TextLess(Tail(a), Tail(b))
    ELSE CharRank(a[1]) < CharRank(b[1])

\* A cell of a nested column is nan (an empty cell), a list or a dict, or a str
\* with `decoded`, what json.loads gives for it with its quotes replaced.
\* The value after `if isinstance(x, str): x = json.loads(x.replace("'", "\""))`.
Nested(cell) ==
    IF cell.t # "str" THEN [ok |-> TRUE, v |-> cell]
    ELSE IF cell.decoded.t = "exc" THEN [ok |-> FALSE, exc |-> cell.decoded.exc]
    ELSE [ok |-> TRUE, v |-> cell.decoded.data]

RECURSIVE EntryRecords(_, _, _, _, _)
\* for entry in entries, from position k on: the records appended until an entry
\* raises. label is 'date', 'company' or 'sector', number is 'nav' or 'percentage';
\* a date is [t |-> "date", v |-> <<y, m, d>>], any other text makes pd.to_datetime raise
EntryRecords(fund_name, entries, k, label, number) ==
    IF k > Len(entries) THEN <<>>
    ELSE IF entries[k].t # "dict" THEN <<>>
    ELSE IF ~({label, number} \subseteq DOMAIN entries[k].v) THEN <<>>
    ELSE IF label = "date" /\ entries[k].v[label].t # "date" THEN <<>>
    ELSE The({ IF ~num.ok THEN <<>>
               ELSE <<[c \in {"fund_name", label, number} |->
                          IF c = "fund_name" THEN fund_name
                          ELSE IF c = label THEN entries[k].v[label]
                          ELSE num.v]>>
                    \o EntryRecords(fund_name, entries, k + 1, label, number)
               : num \in {float_of(entries[k].v[number])} })

RECURSIVE NestedRecords(_, _, _, _, _)
\* for _, row in df.iterrows(), from row k on: the records of column col; what a
\* row raises is caught and the records it appended are kept
NestedRecords(rows, k, col, label, number) ==
    IF k > Len(rows) THEN <<>>
    ELSE The({ IF ~nested.ok THEN <<>>
               ELSE IF nested.v.t # "list" THEN <<>>
               ELSE EntryRecords(rows[k].name, nested.v.v, 1, label, number)
               : nested \in {Nested(rows[k][col])} })
         \o NestedRecords(rows, k + 1, col, label, number)

\* pd.DataFrame(records): a frame of no records has no columns
DataFrame(records) ==
    IF records = <<>> THEN Frame({}, <<>>)
    ELSE Frame(DOMAIN records[1], records)

\* row a sorts before row b by ['fund_name', 'date']
NavBefore(a, b) ==
    \/ TextLess(a.fund_name.v, b.fund_name.v)
    \/ a.fund_name = b.fund_name /\ a.date # b.date /\ DateLeq(a.date.v, b.date.v)

\* the frame left in the order its records were appended
sort_values_Unsorted(rows) == rows

\* sort_values(['fund_name', 'date']): each row at the position of its rank
sort_values(rows) ==
    [p \in 1..Len(rows) |->
        rows[CHOOSE i \in 1..Len(rows) :
                 Cardinality({j \in 1..Len(rows) :
                     \/ NavBefore(rows[j], rows[i])
                     \/ ~NavBefore(rows[i], rows[j]) /\ j < i}) = p - 1]]

\* nav_df['nav'] of a frame without that column raises KeyError
process_historical_nav(rows) ==
    The({ IF "nav" \notin nav.columns THEN Raised("KeyError", <<>>)
          ELSE Returned(Frame(nav.columns, sort_values(nav.rows)), <<>>)
          : nav \in {DataFrame(NestedRecords(rows, 1, "historical_nav", "date", "nav"))} })

process_top_holdings(rows) ==
    The({ IF "percentage" \notin holdings.columns THEN Raised("KeyError", <<>>)
          ELSE Returned(holdings, <<>>)
          : holdings \in {DataFrame(NestedRecords(rows, 1, "top_holdings", "company",
                                                  "percentage"))} })

process_sector_allocation(rows) ==
    The({ IF "percentage" \notin sector.columns THEN Raised("KeyError", <<>>)
          ELSE Returned(sector, <<>>)
          : sector \in {DataFrame(NestedRecords(rows, 1, "sector_allocation", "sector",
                                                "percentage"))} })

\* asset_equity, asset_debt, asset_cash of one row: float(alloc_data.get(key, np.nan))
\* in turn; what raises is caught and leaves the later cells nan
AllocationCells(cell) ==
    The({ IF ~nested.ok THEN <<NaN, NaN, NaN>>
          ELSE IF nested.v.t # "dict" THEN <<NaN, NaN, NaN>>
          ELSE The({ IF ~equity.ok THEN <<NaN, NaN, NaN>>
                     ELSE IF ~debt.ok THEN <<equity.v, NaN, NaN>>
                     ELSE IF ~cash.ok THEN <<equity.v, debt.v, NaN>>
                     ELSE <<equity.v, debt.v, cash.v>>
                     : equity \in {float_of(dict_get(nested.v, "equity", NaN))},
                       debt   \in {float_of(dict_get(nested.v, "debt", NaN))},
                       cash   \in {float_of(dict_get(nested.v, "cash", NaN))} })
          : nested \in {Nested(cell)} })

\* the three new columns, each then pd.to_numeric(...).fillna('N/A')
process_asset_allocation(rows) ==
    The({ [i \in 1..Len(rows) |->
              [c \in DOMAIN rows[i] \cup {"asset_equity", "asset_debt", "asset_cash"} |->
                  CASE c = "asset_equity" ->
                           to_numeric_fillna([j \in 1..Len(rows) |-> cells[j][1]], FALSE)[i]
                    [] c = "asset_debt" ->
                           to_numeric_fillna([j \in 1..Len(rows) |-> cells[j][2]], FALSE)[i]
                    [] c = "asset_cash" ->
                           to_numeric_fillna([j \in 1..Len(rows) |-> cells[j][3]], FALSE)[i]
                    [] OTHER -> rows[i][c]]]
          : cells \in {[i \in 1..Len(rows) |-> AllocationCells(rows[i].asset_allocation)]} })

\* x['date'] of entry a is greater than that of entry b (dates are compared as
\* the str they are; a text that is no date starts with a letter)
LaterDate(a, b) ==
    IF a.t = "date" /\ b.t = "date" THEN a # b /\ DateLeq(b.v, a.v)
    ELSE IF a.t = "date" THEN FALSE
    ELSE IF b.t = "date" THEN TRUE
    ELSE TextLess(b.v, a.v)

\* the summary of one nested cell, kept as the values its text is formatted from;
\* 'N/A' when the summary function raises
Summary(cell, col) ==
    The({ IF ~nested.ok THEN NotAvailable
          ELSE IF col = "asset_allocation"
          THEN IF nested.v.t # "dict" THEN NotAvailable
               ELSE [t |-> "summary",
                     equity |-> dict_get(nested.v, "equity", NotAvailable),
                     debt   |-> dict_get(nested.v, "debt", NotAvailable),
                     cash   |-> dict_get(nested.v, "cash", NotAvailable)]
          ELSE IF nested.v.t # "list" THEN NotAvailable
          ELSE The({ IF \E k \in 1..Len(entries) :
                            \/ entries[k].t # "dict"
                            \/ ~(keys \subseteq DOMAIN entries[k].v)
                     THEN NotAvailable
                     ELSE IF col # "historical_nav"
                     THEN [t |-> "summary",
                           items |-> [k \in 1..Len(entries) |->
                                         [c \in keys |-> entries[k].v[c]]]]
                     ELSE IF entries = <<>> THEN NotAvailable
                     ELSE [t |-> "summary",
                           latest |-> entries[CHOOSE k \in 1..Len(entries) :
                               /\ \A j \in 1..Len(entries) :
                                      ~LaterDate(entries[j].v.date, entries[k].v.date)
                               /\ \A j \in 1..(k - 1) :
                                      LaterDate(entries[k].v.date, entries[j].v.date)].v]
                     : entries \in {nested.v.v},
                       keys \in {CASE col = "historical_nav" -> {"date", "nav"}
                                   [] col = "top_holdings" -> {"company", "percentage"}
                                   [] col = "sector_allocation" -> {"sector", "percentage"}} })
          : nested \in {Nested(cell)} })

\* the four summary columns are added and the four nested columns dropped
simplify_complex_columns(rows) ==
    [i \in 1..Len(rows) |->
        [c \in (DOMAIN rows[i] \ {"historical_nav", "top_holdings", "asset_allocation",
                                  "sector_allocation"})
               \cup {"historical_nav_summary", "top_holdings_summary",
                     "asset_allocation_summary", "sector_allocation_summary"} |->
            CASE c = "historical_nav_summary" -> Summary(rows[i].historical_nav, "historical_nav")
              [] c = "top_holdings_summary" -> Summary(rows[i].top_holdings, "top_holdings")
              [] c = "asset_allocation_summary" ->
                     Summary(rows[i].asset_allocation, "asset_allocation")
              [] c = "sector_allocation_summary" ->
                     Summary(rows[i].sector_allocation, "sector_allocation")
              [] OTHER -> rows[i][c]]]

----------------------------------------------------------------------------
(* preprocess_data: the tables raw_data.xlsx can hold, and the steps *)

\* Most rows of a table.
MaxRows == 2

\* a str cell that json.loads decodes to `value` once its quotes are replaced
JsonText(value) == [t |-> "str", decoded |-> Json(value)]
\* a str cell that json.loads rejects
BadText == [t |-> "str", decoded |-> Exc("JSONDecodeError")]
\* the text of a date pd.to_datetime reads
Date(y, m, d) == [t |-> "date", v |-> <<y, m, d>>]

\* an Equity fund with every cell filled: maturity values, a zero exit load, NAV
\* entries out of order
RowEquity ==
    [name |-> Str(<<"B">>), aum |-> Float(100000), nav |-> Float(10525),
     exit_load |-> IntV(0), rating |-> IntV(4),
     minimum_investment |-> IntV(500), minimum_sip_investment |-> IntV(100),
     pe |-> Float(2050), pb |-> Float(310), debt_per |-> IntV(2), equity_per |-> Float(9700),
     average_maturity |-> Float(350), yield_to_maturity |-> IntV(0),
     risk |-> Str(<<"H","i","g","h">>), type |-> Equity,
     one_year_return |-> Float(1250), three_year_return |-> NaN, five_year_return |-> NaN,
     link |-> Str(Abs(<<"b">>)),
     historical_nav |-> JsonText(List(<<
         Dict([date |-> Date(2024, 6, 3), nav |-> Float(10525)]),
         Dict([date |-> Date(2024, 5, 31), nav |-> Float(10400)])>>)),
     top_holdings |-> JsonText(List(<<
         Dict([company |-> Str(<<"H","1">>), percentage |-> Float(950)]),
         Dict([company |-> Str(<<"H","4">>), percentage |-> Float(0)])>>)),
     asset_allocation |-> JsonText(Dict([equity |-> Float(9700), debt |-> Float(200),
                                         cash |-> Float(100), total_aum |-> Float(100000)])),
     sector_allocation |-> JsonText(List(<<
         Dict([sector |-> Str(<<"B","a","n","k","s">>), percentage |-> Float(3000)])>>)),
     equity_aum |-> Float(97000)]

\* a Hybrid fund named like no other, with a negative aum, a missing exit load, an
\* empty rating and a zero yield
RowHybrid ==
    [RowEquity EXCEPT !.name = Str(<<"A","b">>), !.type = Str(<<"H","y","b","r","i","d">>),
                      !.aum = IntV(-5), !.exit_load = NaN, !.rating = Str(<<>>),
                      !.debt_per = IntV(40), !.equity_per = IntV(40),
                      !.historical_nav = JsonText(List(<<
                          Dict([date |-> Date(2024, 5, 31), nav |-> Str(<<"1","0",".","5">>)]),
                          Dict([date |-> Str(<<"b","a","b">>), nav |-> Float(100)]),
                          Dict([date |-> Date(2024, 1, 1), nav |-> Float(100)])>>))]

\* a Debt fund none of whose nested collections has an entry
RowEmptyNested ==
    [RowEquity EXCEPT !.name = Str(<<"A">>), !.type = Str(<<"D","e","b","t">>),
                      !.exit_load = None, !.rating = NaN, !.average_maturity = Str(<<>>),
                      !.yield_to_maturity = NaN, !.one_year_return = Float(15000),
                      !.equity_aum = NaN, !.pe = Str(<<"n","/","a">>),
                      !.historical_nav = JsonText(List(<<>>)),
                      !.top_holdings = JsonText(List(<<>>)),
                      !.asset_allocation = JsonText(Dict(<<>>)),
                      !.sector_allocation = JsonText(List(<<>>))]

\* an Equity fund whose holdings cell is empty and whose other nested cells hold
\* entries that cannot be read
RowBrokenNested ==
    [RowEquity EXCEPT !.name = Str(<<"A">>), !.average_maturity = NaN,
                      !.yield_to_maturity = Str(<<>>), !.exit_load = Float(50),
                      !.top_holdings = NaN,
                      !.asset_allocation = JsonText(Dict([equity |-> Float(9000),
                                                          debt |-> None])),
                      !.sector_allocation = JsonText(List(<<
                          Dict([sector |-> Str(<<"I","T">>), percentage |-> IntV(60)]),
                          Dict([sector |-> Str(<<"B","a","n","k","s">>)])>>))]

\* a Debt fund whose sector text json.loads rejects
RowDebt ==
    [RowEquity EXCEPT !.name = Str(<<"C">>), !.type = Str(<<"D","e","b","t">>),
                      !.exit_load = Str(<<>>), !.yield_to_maturity = Float(725),
                      !.debt_per = Float(9600), !.equity_per = IntV(0),
                      !.sector_allocation = BadText]

RowPool == <<RowEquity, RowHybrid, RowEmptyNested, RowBrokenNested, RowDebt>>

\* preprocess_data(input_file, output_file) is about to start
InitPreprocess ==
    /\ listing = <<>>
    /\ clamps = FALSE
    /\ pc = "while"
    /\ page_no = 0
    /\ funds_data = <<>>
    /\ card_i = 0
    /\ all_funds = <<>>
    /\ seen = {}
    /\ fetched = {}
    /\ pending_delay = FALSE
    /\ fn_call = NoCall
    /\ fn_ret = NoCall
    /\ InitDetail
    /\ pp_pc = "load"
    /\ loaded = <<>>
    /\ df = <<>>
    /\ nav_df = Frame({}, <<>>)
    /\ holdings_df = Frame({}, <<>>)
    /\ sector_df = Frame({}, <<>>)
    /\ warnings = {}
    /\ pp_raised = ""

\* an exception leaves preprocess_data
PreprocessAbort(exc) ==
    /\ pp_pc' = "crashed"
    /\ pp_raised' = exc

\* df = load_excel(input_file): the table of the file, or the error of pd.read_excel
\* raised again
LoadExcel ==
    /\ pp_pc = "load"
    /\ \/ \E n \in 1..MaxRows : \E picks \in [1..n -> 1..Len(RowPool)] :
            /\ loaded' = [k \in 1..n |-> RowPool[picks[k]]]
            /\ df' = [k \in 1..n |-> RowPool[picks[k]]]
            /\ pp_pc' = "missing"
            /\ pp_raised' = pp_raised
       \/ /\ PreprocessAbort("Exception")
          /\ UNCHANGED <<loaded, df>>
    /\ UNCHANGED <<dvars, fvars, mvars, nav_df, holdings_df, sector_df, warnings>>

\* df = handle_missing_values(df)
HandleMissingValues ==
    /\ pp_pc = "missing"
    /\ df' = handle_missing_values(df)
    /\ pp_pc' = "types"
    /\ UNCHANGED <<dvars, fvars, mvars, loaded, nav_df, holdings_df, sector_df, warnings,
                   pp_raised>>

\* df = standardize_data_types(df)
StandardizeDataTypes ==
    /\ pp_pc = "types"
    /\ df' = standardize_data_types(df)
    /\ pp_pc' = "validate"
    /\ UNCHANGED <<dvars, fvars, mvars, loaded, nav_df, holdings_df, sector_df, warnings,
                   pp_raised>>

\* df = validate_data(df)
ValidateData ==
    /\ pp_pc = "validate"
    /\ \E r \in {validate_data(df)} :
         /\ df' = r.df
         /\ warnings' = r.warnings
    /\ pp_pc' = "nav"
    /\ UNCHANGED <<dvars, fvars, mvars, loaded, nav_df, holdings_df, sector_df, pp_raised>>

\* nav_df = process_historical_nav(df), outside any try
ProcessHistoricalNav ==
    /\ pp_pc = "nav"
    /\ \E r \in {process_historical_nav(df)} :
         \/ /\ r.kind = "return"
            /\ nav_df' = r.value
            /\ pp_pc' = "holdings"
            /\ pp_raised' = pp_raised
         \/ /\ r.kind = "raise"
            /\ PreprocessAbort(r.exc)
            /\ nav_df' = nav_df
    /\ UNCHANGED <<dvars, fvars, mvars, loaded, df, holdings_df, sector_df, warnings>>

\* holdings_df = process_top_holdings(df)
ProcessTopHoldings ==
    /\ pp_pc = "holdings"
    /\ \E r \in {process_top_holdings(df)} :
         \/ /\ r.kind = "return"
            /\ holdings_df' = r.value
            /\ pp_pc' = "asset"
            /\ pp_raised' = pp_raised
         \/ /\ r.kind = "raise"
            /\ PreprocessAbort(r.exc)
            /\ holdings_df' = holdings_df
    /\ UNCHANGED <<dvars, fvars, mvars, loaded, df, nav_df, sector_df, warnings>>

\* df = process_asset_allocation(df)
ProcessAssetAllocation ==
    /\ pp_pc = "asset"
    /\ df' = process_asset_allocation(df)
    /\ pp_pc' = "sector"
    /\ UNCHANGED <<dvars, fvars, mvars, loaded, nav_df, holdings_df, sector_df, warnings,
                   pp_raised>>

\* sector_df = process_sector_allocation(df)
ProcessSectorAllocation ==
    /\ pp_pc = "sector"
    /\ \E r \in {process_sector_allocation(df)} :
         \/ /\ r.kind = "return"
            /\ sector_df' = r.value
            /\ pp_pc' = "simplify"
            /\ pp_raised' = pp_raised
         \/ /\ r.kind = "raise"
            /\ PreprocessAbort(r.exc)
            /\ sector_df' = sector_df
    /\ UNCHANGED <<dvars, fvars, mvars, loaded, df, nav_df, holdings_df, warnings>>

\* df = simplify_complex_columns(df)
SimplifyComplexColumns ==
    /\ pp_pc = "simplify"
    /\ df' = simplify_complex_columns(df)
    /\ pp_pc' = "save"
    /\ UNCHANGED <<dvars, fvars, mvars, loaded, nav_df, holdings_df, sector_df, warnings,
                   pp_raised>>

\* a save that logs the error of the writer and returns
save_cleaned_data_Swallows(written) ==
    Returned(None, IF written THEN <<>> ELSE <<<<"error", "saving Excel file">>>>)

\* save_cleaned_data(fund_df, nav_df, holdings_df, sector_df, output_file): the four
\* sheets are written, or the error of the writer is logged and raised again
save_cleaned_data(written) ==
    IF written THEN Returned(None, <<>>)
    ELSE Raised("Exception", <<<<"error", "saving Excel file">>>>)

\* save_cleaned_data(df, nav_df, holdings_df, sector_df, output_file), outside any
\* try; then preprocess_data returns the four frames
SaveCleanedData ==
    /\ pp_pc = "save"
    /\ \E written \in BOOLEAN : \E r \in {save_cleaned_data(written)} :
         /\ warnings' = warnings \cup {r.events[k] : k \in 1..Len(r.events)}
         /\ \/ /\ r.kind = "return"
               /\ pp_pc' = "saved"
               /\ pp_raised' = pp_raised
            \/ /\ r.kind = "raise"
               /\ PreprocessAbort(r.exc)
    /\ UNCHANGED <<dvars, fvars, mvars, loaded, df, nav_df, holdings_df, sector_df>>

NextPreprocess ==
    \/ LoadExcel
    \/ HandleMissingValues
    \/ StandardizeDataTypes
    \/ ValidateData
    \/ ProcessHistoricalNav
    \/ ProcessTopHoldings
    \/ ProcessAssetAllocation
    \/ ProcessSectorAllocation
    \/ SimplifyComplexColumns
    \/ SaveCleanedData

SpecPreprocess == InitPreprocess /\ [][NextPreprocess]_vars

----------------------------------------------------------------------------
(* Claims on discovery *)

\* the part of a link before its query string
StripQuery(link) == Head(str_split(link, <<"?">>))

RECURSIVE StripTrailingSuffixes(_)
\* a link without the cosmetic suffixes it ends with
StripTrailingSuffixes(s) ==
    IF \E k \in 1..Len(suffixes) : EndsWith(s, suffixes[k])
    THEN LET k == CHOOSE k \in 1..Len(suffixes) : EndsWith(s, suffixes[k])
         IN  StripTrailingSuffixes(SubSeq(s, 1, Len(s) - Len(suffixes[k])))
    ELSE s

\* two links that differ only in the query string or in trailing cosmetic suffixes
SameLinkButQueryAndSuffixes(l1, l2) ==
    StripTrailingSuffixes(StripQuery(l1)) = StripTrailingSuffixes(StripQuery(l2))

\* C1: the discovered list never holds two summaries with the same key
\* (trimmed name, normalize_link(link)), and never two summaries of the same
\* name whose links differ only in the query string or the cosmetic suffixes.
C1_DedupOneSummaryPerIdentity ==
    \A i, j \in 1..Len(all_funds) :
        i < j =>
            /\ FundKey(all_funds[i]) # FundKey(all_funds[j])
            /\ ~( /\ str_strip(all_funds[i].name) = str_strip(all_funds[j].name)
                  /\ SameLinkButQueryAndSuffixes(all_funds[i].link, all_funds[j].link) )

RECURSIVE AccumulateCards(_, _, _)
\* the summaries of `funds` added to acc, one per key, up to MAX_FUNDS
AccumulateCards(funds, acc, keys) ==
    IF funds = <<>> \/ Len(acc) >= MAX_FUNDS THEN [funds |-> acc, keys |-> keys]
    ELSE IF FundKey(Head(funds)) \in keys
         THEN AccumulateCards(Tail(funds), acc, keys)
         ELSE AccumulateCards(Tail(funds), Append(acc, Head(funds)),
                              keys \cup {FundKey(Head(funds))})

RECURSIVE AccumulatePages(_, _, _, _)
\* the summaries accumulated from pages p .. n-1
AccumulatePages(p, n, acc, keys) ==
    IF p >= n THEN acc
    ELSE LET r == AccumulateCards(extract_fund_overview(p), acc, keys)
         IN  AccumulatePages(p + 1, n, r.funds, r.keys)

\* C2: once a fetched page N yields zero fund cards, discovery has stopped,
\* no page with an index greater than N was fetched, and the result is exactly
\* what pages 0..N-1 accumulated.
C2_PaginationStop ==
    \A n \in fetched :
        extract_fund_overview(n) = <<>> =>
            /\ DiscoveryDone
            /\ \A m \in fetched : m <= n
            /\ all_funds = AccumulatePages(0, n, <<>>, {})

\* C2 witness: discovery stopped on the empty page 2 with fewer than MAX_FUNDS summaries.
C2_Witness ==
    /\ DiscoveryDone
    /\ 2 \in fetched
    /\ extract_fund_overview(2) = <<>>
    /\ Len(all_funds) > 0
    /\ Len(all_funds) < MAX_FUNDS

\* C3 (as claimed): whatever the site serves, discovery eventually halts.
C3_AlwaysTerminates == <>DiscoveryDone

\* C3 (amended): when the listing is finite (past its last page the site
\* serves no cards), discovery eventually halts.
C3_TerminatesOnFiniteListing == (~clamps) ~> DiscoveryDone

\* C3 witness: a finite listing of three pages with cards was walked to its end.
C3_Witness ==
    /\ ~clamps
    /\ DiscoveryDone
    /\ fetched = 0..3
    /\ Len(all_funds) < MAX_FUNDS

\* C4: the number of collected summaries never exceeds MAX_FUNDS, and once it
\* equals MAX_FUNDS no card is examined or appended and no page is fetched.
C4_MaxCountBound ==
    /\ [](Len(all_funds) <= MAX_FUNDS)
    /\ [][Len(all_funds) = MAX_FUNDS =>
            /\ all_funds' = all_funds
            /\ seen' = seen
            /\ card_i' = card_i
            /\ funds_data' = funds_data
            /\ fetched' = fetched
            /\ (pending_delay' => pending_delay)
            /\ pc' # "cards"]_vars

\* C4 witness: MAX_FUNDS was reached with cards of the current page left over.
C4_Witness ==
    /\ Len(all_funds) = MAX_FUNDS
    /\ DiscoveryDone
    /\ card_i < Len(funds_data)

----------------------------------------------------------------------------
(* Claims on the per-fund functions *)

\* the calls, and the requests, among the events of a call
CallEvents(events) == SelectSeq(events, LAMBDA e : e.ev = "CALL")
GetEvents(events)  == SelectSeq(events, LAMBDA e : e.ev = "GET")

\* a scheme code that is absent: nan, None or the empty string
AbsentCode(code) == code.t \in {"nan", "none"} \/ (code.t = "str" /\ code.v = <<>>)

\* a decoded payload {"folio": {"data": []}}
EmptyPayload(primary) ==
    /\ primary.t = "json"
    /\ primary.data.t = "dict"
    /\ "folio" \in DOMAIN primary.data.v
    /\ primary.data.v.folio.t = "dict"
    /\ "data" \in DOMAIN primary.data.v.folio.v
    /\ primary.data.v.folio.v.data.t = "list"
    /\ primary.data.v.folio.v.data.v = <<>>

\* what fetch_amfi_nav gives for the scheme code and the feed of the call
FallbackOfCall == fetch_amfi_nav(fn_call.scheme_code, DefaultStartDate, DefaultEndDate,
                                 fn_call.feed)

\* the call made fetch_amfi_nav once, with its scheme code and the default
\* window, and ended as that call ended
ForwardsFallback ==
    /\ Len(CallEvents(fn_ret.events)) = 1
    /\ CallEvents(fn_ret.events)[1].fn = "fetch_amfi_nav"
    /\ CallEvents(fn_ret.events)[1].args =
           <<fn_call.scheme_code, DefaultStartDate, DefaultEndDate>>
    /\ fn_ret.kind = FallbackOfCall.kind
    /\ FallbackOfCall.kind = "return" => fn_ret.value = FallbackOfCall.value
    /\ FallbackOfCall.kind = "raise" => fn_ret.exc = FallbackOfCall.exc

\* C6: with a scheme code present, a primary payload that decodes to an empty
\* list of entries makes extract_historical_nav call fetch_amfi_nav with the
\* same code and the default window and return that call's result.
C6_EmptyPayloadFallsBack ==
    ( /\ fn_call.fn = "extract_historical_nav"
      /\ ~AbsentCode(fn_call.scheme_code)
      /\ EmptyPayload(fn_call.primary) )
    => ForwardsFallback

\* C7: with a scheme code present, a failed primary request (connection
\* error, timeout, non-2xx status, undecodable JSON) makes
\* extract_historical_nav call fetch_amfi_nav exactly once with the same code
\* and end as that call ends; the failure of the primary request is not raised.
C7_FallbackOnApiFailure ==
    ( /\ fn_call.fn = "extract_historical_nav"
      /\ ~AbsentCode(fn_call.scheme_code)
      /\ fn_call.primary.t = "exc" )
    => /\ ForwardsFallback
       /\ ~(fn_ret.kind = "raise" /\ fn_ret.exc = fn_call.primary.exc)

\* C7 witness: the primary request timed out and the entries of the feed were returned.
C7_Witness ==
    /\ fn_call.fn = "extract_historical_nav"
    /\ ~AbsentCode(fn_call.scheme_code)
    /\ fn_call.primary.t = "exc"
    /\ fn_call.primary.exc = "Timeout"
    /\ Len(CallEvents(fn_ret.events)) = 1
    /\ fn_ret.kind = "return"
    /\ fn_ret.value # <<>>

\* the download of the feed failed, or a row of the scheme has a date or a
\* NAV that does not parse
FeedFails(scheme_code, feed) ==
    \/ feed.t = "exc"
    \/ /\ feed.t = "rows"
       /\ int_of(scheme_code).ok
       /\ \E k \in 1..Len(feed.rows) :
            /\ feed.rows[k].code.t = "int"
            /\ feed.rows[k].code.v = int_of(scheme_code).v.v
            /\ ~parse_dmy(feed.rows[k].date).ok \/ ~float_of(feed.rows[k].nav).ok

\* C8: whenever the bulk feed fails, in the download or in parsing its rows,
\* dates or NAV values, fetch_amfi_nav returns an empty sequence and raises nothing.
C8_FallbackNeverRaises ==
    ( /\ fn_call.fn = "fetch_amfi_nav"
      /\ FeedFails(fn_call.scheme_code, fn_call.feed) )
    => /\ fn_ret.kind = "return"
       /\ fn_ret.value = <<>>

\* a stats record with every numeric field unavailable and no sector
AllUnavailable(stats) ==
    /\ DOMAIN stats = {"pe", "pb", "debt_per", "equity_per", "average_maturity",
                       "yield_to_maturity", "asset_allocation", "sector_allocation",
                       "equity_aum"}
    /\ \A k \in {"pe", "pb", "debt_per", "equity_per", "average_maturity",
                  "yield_to_maturity", "equity_aum"} : stats[k].t = "nan"
    /\ \A k \in DOMAIN stats.asset_allocation : stats.asset_allocation[k].t = "nan"
    /\ stats.sector_allocation = <<>>

\* C9: with an absent scheme code, extract_historical_nav, extract_top_holdings
\* and extract_portfolio_stats make no request and return an empty NAV list,
\* an empty holdings list and an all-unavailable stats record; none raises.
C9_MissingCodeShortCircuits ==
    ( /\ fn_call.fn \in {"extract_historical_nav", "extract_top_holdings",
                         "extract_portfolio_stats"}
      /\ AbsentCode(fn_call.scheme_code) )
    => /\ fn_ret.kind = "return"
       /\ fn_ret.events = <<>>
       /\ fn_call.fn = "extract_historical_nav" => fn_ret.value = <<>>
       /\ fn_call.fn = "extract_top_holdings" => fn_ret.value = <<>>
       /\ fn_call.fn = "extract_portfolio_stats" => AllUnavailable(fn_ret.value)

\* C9 witness: extract_portfolio_stats was called with nan, the code of a page
\* that holds none, and three attempts allowed, and returned without a request.
C9_Witness ==
    /\ fn_call.fn = "extract_portfolio_stats"
    /\ fn_call.scheme_code.t = "nan"
    /\ fn_call.retries = DefaultRetries
    /\ fn_ret.kind = "return"
    /\ fn_ret.events = <<>>
    /\ AllUnavailable(fn_ret.value)

\* attempt k of the call fails: the request, the decoding or the reading of
\* the response raises
AttemptFails(k) == ~StatsAttempt(fn_call.responses[k], fn_call.fund_type).ok

\* C10: with a scheme code present, extract_portfolio_stats makes at most
\* `retries` requests; the first successful attempt is returned with no later
\* request; a failed attempt that is not the last is followed by a sleep of
\* retry_delay and the next attempt; when every attempt failed the
\* all-unavailable record is returned.
C10_RetryPolicy ==
    ( /\ fn_call.fn = "extract_portfolio_stats"
      /\ ~AbsentCode(fn_call.scheme_code)
      /\ fn_call.retries >= 1 )
    => LET n      == fn_call.retries
           events == fn_ret.events
       IN  /\ Len(GetEvents(events)) <= n
           /\ \A s \in 1..n :
                ((\A j \in 1..(s - 1) : AttemptFails(j)) /\ ~AttemptFails(s)) =>
                    /\ fn_ret.kind = "return"
                    /\ fn_ret.value = StatsAttempt(fn_call.responses[s], fn_call.fund_type).v
                    /\ Len(GetEvents(events)) = s
           /\ \A k \in 1..(n - 1) :
                (\A j \in 1..k : AttemptFails(j)) =>
                    /\ Len(events) >= 2 * k + 1
                    /\ events[2 * k - 1].ev = "GET"
                    /\ events[2 * k].ev = "SLEEP"
                    /\ events[2 * k].seconds = fn_call.retry_delay
                    /\ events[2 * k + 1].ev = "GET"
           /\ (\A j \in 1..n : AttemptFails(j)) =>
                    /\ fn_ret.kind = "return"
                    /\ AllUnavailable(fn_ret.value)

----------------------------------------------------------------------------
(* Claims on main *)

\* the lists main appends to once per fund
PerFundLists ==
    <<lists.aum_list, lists.nav_list, lists.min_inv_list, lists.min_sip_list,
      lists.rating_list, lists.exp_ratio_list, lists.exit_load_list, lists.scheme_codes,
      lists.historical_navs, lists.top_holdings_list, lists.asset_allocations,
      lists.sector_allocations, lists.equity_aums>>

\* C5: no failure of a detail step of a fund aborts the batch: no exception leaves
\* main, and once the detail loop is over every discovered fund has its record, i.e.
\* one entry in each of the per-fund lists.
C5_NoFundFailureAbortsBatch ==
    /\ uncaught = ""
    /\ pc # "crashed"
    /\ pc \in {"analysis", "done"} =>
           \A k \in 1..Len(PerFundLists) : Len(PerFundLists[k]) = Len(all_funds)

\* the calls of extract_portfolio_stats main made for fund i
StatsCallsOf(i) ==
    {k \in DOMAIN trace : /\ trace[k].ev = "CALL"
                          /\ trace[k].fn = "extract_portfolio_stats"
                          /\ trace[k].fund = i}

\* C11: over a whole run of main, extract_portfolio_stats is called exactly once for
\* each discovered fund.
C11_OneStatsCallPerFund ==
    pc = "done" => \A i \in 1..Len(all_funds) : Cardinality(StatsCallsOf(i)) = 1

\* extract_portfolio_stats returned the record of a successful attempt: its last
\* event is the sleep of one second that follows a response read without error
SucceededStats ==
    /\ fn_call.fn = "extract_portfolio_stats"
    /\ fn_ret.kind = "return"
    /\ fn_ret.events # <<>>
    /\ Last(fn_ret.events) = Sleep(1)

\* the decoded JSON of the attempt that succeeded
AnswerData == fn_call.responses[Len(GetEvents(fn_ret.events))].data

\* a raw field of the answer in hundredths, a missing one counted as 0
RawCounted(key) ==
    IF key \notin DOMAIN AnswerData.v THEN 0
    ELSE IF isna(AnswerData.v[key]) THEN 0
    ELSE Hundredths(AnswerData.v[key])

\* out (in hundredths) is raw * 100 / total to the hundredth
ScaledTo100(out, raw, total) ==
    /\ out.t = "float"
    /\ out.v * total <= raw * 10000
    /\ raw * 10000 < (out.v + 1) * total

\* C12: for a Hybrid fund with a successful stats response, when raw debt_per +
\* equity_per (a missing one counted as 0) is positive the returned debt_per and
\* equity_per are the raw values scaled by 100/sum and sum to 100 (to the
\* hundredth); when the raw sum is not positive both are unavailable.
C12_HybridRenormalization ==
    (SucceededStats /\ fn_call.fund_type = "Hybrid") =>
        LET debt   == RawCounted("debt_per")
            equity == RawCounted("equity_per")
            out    == fn_ret.value
        IN  IF debt + equity > 0
            THEN /\ ScaledTo100(out.debt_per, debt, debt + equity)
                 /\ ScaledTo100(out.equity_per, equity, debt + equity)
                 /\ out.debt_per.v + out.equity_per.v \in 9999..10000
            ELSE /\ out.debt_per.t = "nan"
                 /\ out.equity_per.t = "nan"

\* C12 witness: raw 40 and 40 of a Hybrid fund came back as 50 and 50.
C12_Witness ==
    /\ SucceededStats
    /\ fn_call.fund_type = "Hybrid"
    /\ RawCounted("debt_per") = 4000
    /\ RawCounted("equity_per") = 4000
    /\ fn_ret.value.debt_per = Float(5000)
    /\ fn_ret.value.equity_per = Float(5000)

\* field key of the answer as data.get(key, np.nan) reads it
RawField(key) == dict_get(AnswerData, key, NaN)

\* C13: on a successful stats response, for fund type Commodities the returned pe
\* and pb are unavailable and debt_per and equity_per are 0 whatever the response
\* holds; for every fund type other than Hybrid the returned average_maturity and
\* yield_to_maturity are unavailable; for Hybrid they are the response's values.
C13_TypeConditionalRules ==
    SucceededStats =>
        LET out == fn_ret.value
        IN  /\ fn_call.fund_type = "Commodities" =>
                /\ out.pe.t = "nan"
                /\ out.pb.t = "nan"
                /\ IsNumber(out.debt_per) /\ Hundredths(out.debt_per) = 0
                /\ IsNumber(out.equity_per) /\ Hundredths(out.equity_per) = 0
            /\ fn_call.fund_type # "Hybrid" =>
                /\ out.average_maturity.t = "nan"
                /\ out.yield_to_maturity.t = "nan"
            /\ fn_call.fund_type = "Hybrid" =>
                /\ out.average_maturity = RawField("average_maturity")
                /\ out.yield_to_maturity = RawField("yield_to_maturity")

\* C13 witness: a Commodities fund whose response holds pe, debt_per and
\* average_maturity got none of them.
C13_Witness ==
    /\ SucceededStats
    /\ fn_call.fund_type = "Commodities"
    /\ IsNumber(RawField("pe"))
    /\ IsNumber(RawField("debt_per")) /\ Hundredths(RawField("debt_per")) > 0
    /\ IsNumber(RawField("average_maturity"))
    /\ fn_ret.value.pe.t = "nan"
    /\ fn_ret.value.debt_per = IntV(0)
    /\ fn_ret.value.average_maturity.t = "nan"

\* the answer holds no percentage `key` in its asset_allocation
AbsentAllocation(key) ==
    \/ "asset_allocation" \notin DOMAIN AnswerData.v
    \/ key \notin DOMAIN AnswerData.v.asset_allocation.v

\* some row of the holdings table of the call names `company` and reads the number 0
ReadsZero(company) ==
    \E k \in 1..Len(fn_call.page.table.rows) :
        LET row == fn_call.page.table.rows[k]
        IN  /\ Len(row) >= 4
            /\ str_strip(row[1]) = company
            /\ float_of_str(str_replace(str_strip(row[4]), <<"%">>)).ok
            /\ float_of_str(str_replace(str_strip(row[4]), <<"%">>)).v = 0

\* C14: an optional numeric value that is absent from the source is reported as
\* unavailable and never as 0: an asset-allocation percentage the response does not
\* hold, debt_per or equity_per the response does not hold (but for a Commodities
\* fund), a holding's percentage that its cell does not hold.
C14_AbsentNeverZero ==
    /\ SucceededStats =>
        /\ \A key \in {"equity", "debt", "cash"} :
              AbsentAllocation(key) => fn_ret.value.asset_allocation[key].t = "nan"
        /\ fn_call.fund_type # "Commodities" =>
              \A key \in {"debt_per", "equity_per"} :
                  isna(RawField(key)) => isna(fn_ret.value[key])
    /\ (fn_call.fn = "extract_top_holdings" /\ fn_ret.kind = "return") =>
          \A k \in 1..Len(fn_ret.value) :
              fn_ret.value[k].percentage = Float(0) => ReadsZero(fn_ret.value[k].company)

\* the sector map of the answer: its keys in the order of the response
SectorKeys ==
    IF "equity_sector_per" \in DOMAIN AnswerData.v
    THEN AnswerData.v.equity_sector_per.order ELSE <<>>

\* the percentage of sector `key` in the answer, in hundredths
SectorPercentage(key) == float_of(AnswerData.v.equity_sector_per.v[key]).v.v

\* C15: on a successful stats response with a sector map of n entries, the returned
\* sector_allocation has min(n, 4) entries, each an entry of the map, in
\* non-increasing order of percentage, and every entry left out has a percentage
\* no greater than every entry kept.
C15_SectorTopFour ==
    SucceededStats =>
        LET out  == fn_ret.value.sector_allocation
            n    == Len(SectorKeys)
            kept == {out[k].sector : k \in 1..Len(out)}
        IN  /\ Len(out) = IF n < 4 THEN n ELSE 4
            /\ Cardinality(kept) = Len(out)
            /\ \A k \in 1..Len(out) :
                  /\ \E j \in 1..n : SectorKeys[j] = out[k].sector
                  /\ out[k].percentage = Float(SectorPercentage(out[k].sector))
            /\ \A k \in 1..(Len(out) - 1) : out[k].percentage.v >= out[k + 1].percentage.v
            /\ \A j \in 1..n : \A k \in 1..Len(out) :
                  SectorKeys[j] \notin kept =>
                      SectorPercentage(SectorKeys[j]) <= out[k].percentage.v

\* C15 witness: of a map of six sectors the four largest came back, largest first.
C15_Witness ==
    /\ SucceededStats
    /\ Len(SectorKeys) = 6
    /\ Len(fn_ret.value.sector_allocation) = 4
    /\ SectorKeys[1] = "Energy"
    /\ fn_ret.value.sector_allocation[1].sector = "Banks"
    /\ fn_ret.value.sector_allocation[4].percentage = Float(1000)

\* the data rows of the holdings table of the call: the rows of its tbody, or
\* without one every row after the header row
DataRows ==
    IF fn_call.page.table.has_tbody THEN fn_call.page.table.rows
    ELSE Tail(fn_call.page.table.rows)

\* the first five data rows that have the four expected cells
FullRowsOfFirstFive ==
    SelectSeq(SubSeq(DataRows, 1, IF Len(DataRows) < 5 THEN Len(DataRows) ELSE 5),
              LAMBDA row : Len(row) >= 4)

\* extract_top_holdings read a holdings table
ReadHoldingsTable ==
    /\ fn_call.fn = "extract_top_holdings"
    /\ ~AbsentCode(fn_call.scheme_code)
    /\ fn_call.fund_link # <<>>
    /\ fn_call.page.ok
    /\ fn_call.page.table.present

\* C16: extract_top_holdings returns at most 5 holdings, in source order, one for
\* each of the first 5 data rows of the holdings table that has its 4 cells; a
\* shorter row among them is skipped without error and no later row replaces it.
C16_HoldingsFirstFiveRows ==
    ReadHoldingsTable =>
        /\ fn_ret.kind = "return"
        /\ Len(fn_ret.value) <= 5
        /\ Len(fn_ret.value) = Len(FullRowsOfFirstFive)
        /\ \A k \in 1..Len(fn_ret.value) :
              fn_ret.value[k].company = str_strip(FullRowsOfFirstFive[k][1])

\* C16 witness: of a table of seven rows whose third row is short, the rows 1, 2, 4
\* and 5 came back and the rows 6 and 7 did not.
C16_Witness ==
    /\ ReadHoldingsTable
    /\ Len(DataRows) = 7
    /\ Len(DataRows[3]) < 4
    /\ fn_ret.kind = "return"
    /\ [k \in 1..Len(fn_ret.value) |-> fn_ret.value[k].company] =
           <<<<"H","1">>, <<"H","2">>, <<"H","4">>, <<"H","5">>>>

----------------------------------------------------------------------------
(* Claims on preprocess_data *)

\* the nested cell holds a collection of no entry
EmptyCollection(cell) ==
    The({ nested.ok /\ nested.v.t = "list" /\ nested.v.v = <<>> : nested \in {Nested(cell)} })

\* every fund of the loaded table has an empty collection in column col
EveryFundEmpty(col) ==
    /\ loaded # <<>>
    /\ \A i \in 1..Len(loaded) : EmptyCollection(loaded[i][col])

\* C17: when every fund's historical_nav, or every fund's top_holdings, or every
\* fund's sector_allocation is empty, preprocess_data is not left by the KeyError of
\* a frame without columns: it keeps every fund row and goes on to the export step.
C17_EmptyNestedCompletes ==
    (\E col \in {"historical_nav", "top_holdings", "sector_allocation"} : EveryFundEmpty(col))
        => /\ ~(pp_pc = "crashed" /\ pp_raised = "KeyError")
           /\ pp_pc \notin {"load", "crashed"} => Len(df) = Len(loaded)

\* the cell holds the marker 'N/A'
IsNotAvailable(x) == x.t = "str" /\ x.v = NotAvailable.v

\* the cell holds a number of that many hundredths
NumberIs(x, hundredths) == IsNumber(x) /\ Hundredths(x) = hundredths

\* handle_missing_values has run on the loaded table
MissingHandled == pp_pc \notin {"load", "missing"} /\ Len(df) = Len(loaded)

\* C18: for every row whose type is Equity, whatever average_maturity and
\* yield_to_maturity came in, both are 'N/A' in the fund table from
\* handle_missing_values on, through every later step, to the table that is exported.
C18_EquityOverride ==
    MissingHandled =>
        \A i \in 1..Len(df) :
            loaded[i].type = Equity =>
                /\ IsNotAvailable(df[i].average_maturity)
                /\ IsNotAvailable(df[i].yield_to_maturity)

\* C18 witness: an Equity fund that came in with an average maturity of 3.5 and a
\* yield of 0 was exported with 'N/A' in both.
C18_Witness ==
    /\ pp_pc = "saved"
    /\ \E i \in 1..Len(df) :
          /\ loaded[i].type = Equity
          /\ NumberIs(loaded[i].average_maturity, 350)
          /\ NumberIs(loaded[i].yield_to_maturity, 0)
          /\ IsNotAvailable(df[i].average_maturity)
          /\ IsNotAvailable(df[i].yield_to_maturity)

\* C19: validate_data leaves the table unchanged: whatever warnings fire, the table
\* it returns has the same rows in the same order with the same cell values.
C19_ValidationNeverMutates ==
    [][pp_pc = "validate" => df' = df]_vars

\* C19 witness: validate_data warned about a negative aum, a return outside
\* [-100, 100] and a sum of debt_per and equity_per outside [95, 105], and the row
\* that came with aum = -5 still holds -5.
C19_Witness ==
    /\ pp_pc = "nav"
    /\ {<<"negative", "aum">>, <<"inconsistent", "debt_per + equity_per">>,
        <<"unrealistic", "one_year_return">>} \subseteq warnings
    /\ Len(df) = 2
    /\ NumberIs(loaded[1].aum, -500)
    /\ NumberIs(df[1].aum, -500)

\* handle_missing_values and standardize_data_types have run on the loaded table
Standardized == pp_pc \notin {"load", "missing", "types"} /\ Len(df) = Len(loaded)

MissingValueCols == {"exit_load", "rating", "average_maturity", "yield_to_maturity"}

\* the cell came in absent, empty or not-a-number
CameInMissing(x) == isna(x) \/ (x.t = "str" /\ x.v = <<>>)

\* the cell of column c of row i is one the Equity rule overrides
EquityOverridden(i, c) ==
    c \in {"average_maturity", "yield_to_maturity"} /\ loaded[i].type = Equity

\* C20 (as amended): after handle_missing_values and standardize_data_types, for
\* each of exit_load, rating, average_maturity and yield_to_maturity a cell that came
\* in absent, empty or not-a-number holds 'N/A' and never 0, and a cell that came in
\* as 0 still holds 0, unless it is the average_maturity or yield_to_maturity of an
\* Equity row, which holds 'N/A' whatever came in.
C20_MissingValuePolicy ==
    Standardized =>
        \A i \in 1..Len(df) : \A c \in MissingValueCols :
            /\ CameInMissing(loaded[i][c]) =>
                   IsNotAvailable(df[i][c]) /\ ~NumberIs(df[i][c], 0)
            /\ NumberIs(loaded[i][c], 0) /\ ~EquityOverridden(i, c) =>
                   NumberIs(df[i][c], 0)
            /\ EquityOverridden(i, c) => IsNotAvailable(df[i][c])

\* C20 witness: in one table a zero exit load still holds 0 and a missing exit load
\* holds 'N/A', and a zero yield of a fund that is not Equity still holds 0.
C20_Witness ==
    /\ pp_pc = "validate"
    /\ \E i, j, k \in 1..Len(df) :
          /\ NumberIs(loaded[i].exit_load, 0) /\ NumberIs(df[i].exit_load, 0)
          /\ CameInMissing(loaded[j].exit_load) /\ IsNotAvailable(df[j].exit_load)
          /\ loaded[k].type # Equity
          /\ NumberIs(loaded[k].yield_to_maturity, 0) /\ NumberIs(df[k].yield_to_maturity, 0)

\* C20 (as stated): every cell of the four columns that came in as 0 still holds 0.
C20_ZeroAlwaysKept ==
    Standardized =>
        \A i \in 1..Len(df) : \A c \in MissingValueCols :
            /\ CameInMissing(loaded[i][c]) =>
                   IsNotAvailable(df[i][c]) /\ ~NumberIs(df[i][c], 0)
            /\ NumberIs(loaded[i][c], 0) => NumberIs(df[i][c], 0)

\* process_historical_nav has returned its table
NavTableReturned == pp_pc \in {"holdings", "asset", "sector", "simplify", "save", "saved"}

\* the records process_historical_nav appended for the loaded table, in input order
NavInput == NestedRecords(loaded, 1, "historical_nav", "date", "nav")

\* row a is not after row b in the order of (fund_name, date)
NavOrdered(a, b) ==
    \/ TextLess(a.fund_name.v, b.fund_name.v)
    \/ a.fund_name.v = b.fund_name.v /\ DateLeq(a.date.v, b.date.v)

\* how many times record r occurs in rows
Occurrences(rows, r) == Cardinality({k \in 1..Len(rows) : rows[k] = r})

\* C21: the table process_historical_nav returns is sorted ascending by
\* (fund_name, date), whatever order the funds and their entries came in, and holds
\* exactly one row for each entry that was parsed.
C21_NavTableSorted ==
    NavTableReturned =>
        /\ \A p, q \in 1..Len(nav_df.rows) :
               p < q => NavOrdered(nav_df.rows[p], nav_df.rows[q])
        /\ Len(nav_df.rows) = Len(NavInput)
        /\ \A k \in 1..Len(NavInput) :
               Occurrences(nav_df.rows, NavInput[k]) = Occurrences(NavInput, NavInput[k])

\* C21 witness: fund B came before fund A and B's entries came latest first; the
\* table returned holds A's rows first and each fund's rows by date.
C21_Witness ==
    /\ NavTableReturned
    /\ Len(loaded) = 2
    /\ TextLess(loaded[2].name.v, loaded[1].name.v)
    /\ Len(NavInput) = 4
    /\ ~NavOrdered(NavInput[1], NavInput[2])
    /\ nav_df.rows = <<NavInput[4], NavInput[3], NavInput[2], NavInput[1]>>

\* save_cleaned_data logged that writing the artifact failed
ExportFailed == <<"error", "saving Excel file">> \in warnings

\* C22: when writing the four-sheet artifact fails in save_cleaned_data, the failure
\* is raised out of save_cleaned_data and out of preprocess_data; preprocess_data
\* never returns normally after a failed export.
C22_ExportFailureRaised ==
    ExportFailed => pp_pc = "crashed" /\ pp_raised = "Exception"

\* C22 witness: every step before the save went through for a table of two funds,
\* the write failed, and preprocess_data was left by the exception.
C22_Witness ==
    /\ ExportFailed
    /\ pp_pc = "crashed"
    /\ Len(df) = 2
    /\ "historical_nav_summary" \in DOMAIN df[1]
    /\ nav_df.rows # <<>>

----------------------------------------------------------------------------
(* Claims on extract_detailed_fund_data *)

\* extract_detailed_fund_data read a fund page
ReadDetailPage == fn_call.fn = "extract_detailed_fund_data" /\ fn_call.page.ok

\* an element of the page carries the label and a text that parses as a number
LabelledNumber(elements, label, removed) ==
    \E k \in 1..Len(elements) :
        /\ Contains(elements[k].previous, label)
        /\ NumberOf(elements[k].text, removed).ok

\* a paragraph of the page holds the label
LabelledParagraph(label) ==
    \E k \in 1..Len(fn_call.page.paragraphs) : Contains(fn_call.page.paragraphs[k], label)

\* C23: each of aum, nav, minimum_investment, minimum_sip_investment, rating,
\* expense_ratio and exit_load is unavailable whenever its own label is not on the
\* page or its own text is no number, whatever the other fields hold; so
\* minimum_investment is unavailable without a parsable 'Min. for 1st investment'
\* value, even when a minimum SIP was found.
C23_FieldIndependence ==
    ReadDetailPage =>
        /\ fn_ret.kind = "return"
        /\ ~LabelledNumber(fn_call.page.elements, Literal.fund_size,
                           <<Literal.rupee, Literal.comma, Literal.crore>>)
               => fn_ret.value[1].t = "nan"
        /\ ~LabelledNumber(fn_call.page.elements, Literal.nav,
                           <<Literal.rupee, Literal.comma>>)
               => fn_ret.value[2].t = "nan"
        /\ ~LabelledNumber(fn_call.page.min_elements, Literal.min_first,
                           <<Literal.rupee, Literal.comma>>)
               => fn_ret.value[3].t = "nan"
        /\ ~LabelledNumber(fn_call.page.min_elements, Literal.min_sip,
                           <<Literal.rupee, Literal.comma>>)
               => fn_ret.value[4].t = "nan"
        /\ (\A k \in 1..Len(fn_call.page.ratings) :
                ~float_of_str(str_strip(fn_call.page.ratings[k])).ok)
               => fn_ret.value[5].t = "nan"
        /\ ~LabelledParagraph(Literal.expense_ratio) => fn_ret.value[6].t = "nan"
        /\ ~LabelledParagraph(Literal.exit_load) => fn_ret.value[7].t = "nan"

----------------------------------------------------------------------------
(* Claims on main: the delay, the page fetches, the lists *)

\* C24: every listing-page fetch, whether it succeeded, failed or gave zero cards,
\* is followed by time.sleep(DELAY_SECONDS) before the next fetch and before
\* discovery stops.
C24_DelayAfterEveryFetch ==
    /\ DiscoveryDone => ~pending_delay
    /\ pc = "while" => ~pending_delay

\* the fund whose call made event k of the trace
FundOfEvent(k) ==
    trace[CHOOSE c \in 1..k : /\ trace[c].ev = "CALL"
                              /\ \A d \in (c + 1)..k : trace[d].ev # "CALL"].fund

\* the fetches of a fund page main made for fund i
PageFetchesOf(i) ==
    {k \in DOMAIN trace : /\ trace[k].ev = "GET"
                          /\ trace[k].url = "page"
                          /\ FundOfEvent(k) = i}

\* C25: over a whole run of main, the detail page of each discovered fund is fetched
\* exactly once, the detail fields, the scheme code and the holdings table being
\* read from that one document.
C25_DetailPageFetchedOnce ==
    pc = "done" => \A i \in 1..Len(all_funds) : Cardinality(PageFetchesOf(i)) = 1

----------------------------------------------------------------------------
(* Claims on the per-fund functions: malformed entries, percentages, retries *)

\* a [timestamp_ms, nav] pair that converts
WellFormedEntry(entry) ==
    /\ entry.t = "list"
    /\ Len(entry.v) = 2
    /\ IsNumber(entry.v[1])
    /\ float_of(entry.v[2]).ok

\* the primary answer decodes to a list of entries, none of them well-formed
AllMalformedPayload(primary) ==
    /\ primary.t = "json"
    /\ primary.data.t = "dict"
    /\ "folio" \in DOMAIN primary.data.v
    /\ primary.data.v.folio.t = "dict"
    /\ "data" \in DOMAIN primary.data.v.folio.v
    /\ primary.data.v.folio.v.data.t = "list"
    /\ primary.data.v.folio.v.data.v # <<>>
    /\ \A k \in 1..Len(primary.data.v.folio.v.data.v) :
           ~WellFormedEntry(primary.data.v.folio.v.data.v[k])

\* C26: with a scheme code present, a primary payload that is not empty but holds no
\* well-formed entry makes extract_historical_nav call fetch_amfi_nav with the same
\* code and return that call's result.
C26_MalformedEntriesFallBack ==
    ( /\ fn_call.fn = "extract_historical_nav"
      /\ ~AbsentCode(fn_call.scheme_code)
      /\ AllMalformedPayload(fn_call.primary) )
    => ForwardsFallback

\* process_top_holdings has returned its table
HoldingsTableReturned == pp_pc \in {"asset", "sector", "simplify", "save", "saved"}

\* C27: every holding extract_top_holdings returns, and every row of the table
\* process_top_holdings returns, has a percentage above 0, also when the
\* percentage text of a source row is no number.
C27_HoldingPercentagesPositive ==
    /\ (fn_call.fn = "extract_top_holdings" /\ fn_ret.kind = "return") =>
           \A k \in 1..Len(fn_ret.value) :
               /\ IsNumber(fn_ret.value[k].percentage)
               /\ Hundredths(fn_ret.value[k].percentage) > 0
    /\ HoldingsTableReturned =>
           \A k \in 1..Len(holdings_df.rows) :
               /\ IsNumber(holdings_df.rows[k].percentage)
               /\ Hundredths(holdings_df.rows[k].percentage) > 0

\* the positions of the calls of extract_detailed_fund_data in the trace
DetailCalls ==
    {k \in DOMAIN trace : trace[k].ev = "CALL" /\ trace[k].fn = "extract_detailed_fund_data"}

\* the lists main builds from the summaries
SummaryLists ==
    <<lists.all_names, lists.all_risks, lists.all_types, lists.all_links,
      lists.one_year_returns, lists.three_year_returns, lists.five_year_returns>>

\* C28: main processes the funds in discovery order, each entry of a per-fund list
\* is appended in the iteration of its own fund from that fund's own page, and after
\* the detail loop every list of the raw record set has one entry per discovered
\* fund, the i-th being that of the i-th fund.
C28_DiscoveryOrderAligned ==
    /\ \A k, l \in DetailCalls : k < l => trace[k].fund < trace[l].fund
    /\ \A k \in DOMAIN trace :
           (trace[k].ev = "GET" /\ trace[k].url = "page") =>
               trace[k].link = all_funds[FundOfEvent(k)].link
    /\ pc \in {"detail", "code", "nav", "holdings", "stats", "sleep"} =>
           \A k \in 1..Len(PerFundLists) :
               Len(PerFundLists[k]) \in {fund_i - 1, fund_i}
    /\ pc \in {"analysis", "done"} =>
           /\ {trace[k].fund : k \in DetailCalls} = 1..Len(all_funds)
           /\ \A k \in 1..Len(PerFundLists) : Len(PerFundLists[k]) = Len(all_funds)
           /\ \A k \in 1..Len(SummaryLists) : Len(SummaryLists[k]) = Len(all_funds)
           /\ \A i \in 1..Len(all_funds) :
                  /\ lists.all_names[i] = all_funds[i].name
                  /\ lists.all_risks[i] = all_funds[i].risk
                  /\ lists.all_types[i] = all_funds[i].type
                  /\ lists.all_links[i] = str_split(str_strip(all_funds[i].link), <<"?">>)[1]
                  /\ lists.one_year_returns[i] = ReturnValue(all_funds[i].returns[1]).v
                  /\ lists.three_year_returns[i] = ReturnValue(all_funds[i].returns[2]).v
                  /\ lists.five_year_returns[i] = ReturnValue(all_funds[i].returns[3]).v

\* C28 witness: two funds were discovered and processed, the page of the first was
\* not served and the page of the second was, and each list holds the first fund's
\* entry before the second's.
C28_Witness ==
    /\ pc = "done"
    /\ Len(all_funds) = 2
    /\ all_funds[1].name # all_funds[2].name
    /\ lists.all_names = <<all_funds[1].name, all_funds[2].name>>
    /\ lists.scheme_codes[1].t = "nan"
    /\ lists.scheme_codes[2].t = "str"
    /\ lists.top_holdings_list[1] = <<>>
    /\ lists.top_holdings_list[2] # <<>>

\* the keys of a stats record
StatsRecordKeys ==
    {"pe", "pb", "debt_per", "equity_per", "average_maturity", "yield_to_maturity",
     "asset_allocation", "sector_allocation", "equity_aum"}

\* C29: for every scheme code, fund type and retries >= 0, extract_portfolio_stats
\* returns a record with the nine keys of a stats record; with retries = 0 it makes
\* no request and returns the all-unavailable record, never an absent value.
C29_StatsRecordOnEveryPath ==
    fn_call.fn = "extract_portfolio_stats" =>
        /\ fn_ret.kind = "return"
        /\ StatsRecordKeys \subseteq DOMAIN fn_ret.value
        /\ fn_call.retries = 0 =>
               /\ GetEvents(fn_ret.events) = <<>>
               /\ fn_ret.value = UnavailableStats

\* the position of the first paragraph of the page that holds 'Exit load', 0 without one
ExitLoadParagraph ==
    IF LabelledParagraph(Literal.exit_load)
    THEN CHOOSE k \in 1..Len(fn_call.page.paragraphs) :
             /\ Contains(fn_call.page.paragraphs[k], Literal.exit_load)
             /\ \A j \in 1..(k - 1) : ~Contains(fn_call.page.paragraphs[j], Literal.exit_load)
    ELSE 0

\* the text states a whole percentage of zero: '0%' that ends no longer number
StatesZeroPercent(text) ==
    \E i \in 1..Len(text) :
        /\ StartsAt(text, i, Literal.zero_percent)
        /\ i > 1 => text[i - 1] \notin (DOMAIN DigitValue \cup {"."})

\* C30: extract_detailed_fund_data returns exit_load = 0 only when the exit-load text
\* states no exit load or a percentage equal to zero; for a text that states a
\* nonzero percentage with a fractional part (1.0%, 0.50%) it returns that percentage.
C30_ExitLoadExtraction ==
    (ReadDetailPage /\ ExitLoadParagraph > 0) =>
        \E text \in {str_strip(fn_call.page.paragraphs[ExitLoadParagraph])} :
        \E m \in {PercentSearch(text)} :
            /\ (m # <<>> /\ float_of_str(m).v # 0 /\ ~Contains(text, Literal.no_exit_load))
                   => NumberIs(fn_ret.value[7], float_of_str(m).v)
            /\ NumberIs(fn_ret.value[7], 0)
                   => \/ Contains(text, Literal.no_exit_load)
                      \/ StatesZeroPercent(text)
                      \/ (m # <<>> /\ float_of_str(m).v = 0)

====
